---- MODULE Spec2Model ----
(***************************************************************************)
(* A model of the TLDR web scraper: webscraper.py (ResponsibleScraper,     *)
(* RobotsTxtChecker, DateRangeGenerator) and lamda_webscraper.py           *)
(* (LambdaScraper and its RobotsTxtChecker).                               *)
(***************************************************************************)
EXTENDS Integers, Sequences, FiniteSets, TLC

VARIABLES
    config,                 \* ScrapingConfig of the scraper instance, plus which file it is from
    robot_parsers,          \* RobotsTxtChecker.robot_parsers: domain -> parser state
    domain_counters,        \* ResponsibleScraper.domain_counters: netloc -> pages fetched
    consecutive_failures,   \* scraper.consecutive_failures
    call,                   \* the scrape_url call in progress (position, url, attempt, result)
    driver,                 \* the scrape_date_range call in progress (position, dates, results)
    net,                    \* what the network has seen: robots.txt requests, page GETs
    fn,                     \* a call of a pure function: its name, arguments and result
    handler,                \* the lambda_handler invocation in progress (position, event, results)
    s3                      \* the put_object calls the S3 client has received, in order

vars ==
    <<config, robot_parsers, domain_counters, consecutive_failures, call, driver, net, fn,
      handler, s3>>

(***************************************************************************)
(* Python values                                                           *)
(***************************************************************************)
\* Python's None, where the other values are numbers
None == -1

\* bool(x) of an Optional number: None and 0 are falsy
Truthy(x) == x # None /\ x # 0

Max(a, b) == IF a >= b THEN a ELSE b

Range(s) == {s[i] : i \in DOMAIN s}

\* the sequences over S of length n at most
SeqsUpTo(S, n) == UNION { [1..k -> S] : k \in 0..n }

Min(a, b) == IF a <= b THEN a ELSE b

\* d[key] = value on a dictionary
SetItem(d, key, value) == [k \in DOMAIN d \cup {key} |-> IF k = key THEN value ELSE d[k]]

\* sub in s, on strings: a string is a sequence of characters
Contains(s, sub) ==
    \E i \in 1..(Len(s) - Len(sub) + 1) : SubSeq(s, i, i + Len(sub) - 1) = sub

\* s.startswith(c) for a character c
StartsWith(s, c) == s # <<>> /\ Head(s) = c

\* the characters of the model's strings; a scheme://netloc counts as one character
Alphabet ==
    << "a", "b", "c", "d", "e", "f", "g", "h", "i", "j", "k", "l", "m", "n", "o", "p", "q", "r",
       "s", "t", "u", "v", "w", "x", "y", "z", "A", "B", "C", "D", "E", "F", "G", "H", "I", "J",
       "K", "L", "M", "N", "O", "P", "Q", "R", "S", "T", "U", "V", "W", "X", "Y", "Z", "0", "1",
       "2", "3", "4", "5", "6", "7", "8", "9", " ", "\n", "/", "|", "-", ".", ":", "#", "<", ">",
       "=", "\"", "tldr.tech", "example.com" >>

\* the number of each character
CodeOf == [c \in {Alphabet[i] : i \in DOMAIN Alphabet} |-> CHOOSE i \in DOMAIN Alphabet : Alphabet[i] = c]

\* ord(c), up to the numbering
Code(c) == CodeOf[c]

\* c.lower(): the capitals are the letters 27..52 of the alphabet
LowerChar(c) == IF Code(c) \in 27..52 THEN Alphabet[Code(c) - 26] ELSE c

\* s.lower()
Lower(s) == [i \in DOMAIN s |-> LowerChar(s[i])]

Whitespace == {" ", "\n"}

RECURSIVE LStrip(_)
LStrip(s) == IF s # <<>> /\ Head(s) \in Whitespace THEN LStrip(Tail(s)) ELSE s

RECURSIVE RStrip(_)
RStrip(s) == IF s # <<>> /\ s[Len(s)] \in Whitespace THEN RStrip(SubSeq(s, 1, Len(s) - 1)) ELSE s

\* s.strip()
Strip(s) == RStrip(LStrip(s))

(***************************************************************************)
(* Dates: datetime.strptime, strftime, comparison, weekday, + timedelta    *)
(***************************************************************************)
Digits == <<"0", "1", "2", "3", "4", "5", "6", "7", "8", "9">>

DigitVal(c) == CHOOSE n \in 0..9 : Digits[n + 1] = c

\* datetime.strptime(s, '%Y-%m-%d'); a 'YYYY-MM-DD' string is a sequence of ten characters
Strptime(s) ==
    [year  |-> DigitVal(s[1]) * 1000 + DigitVal(s[2]) * 100 + DigitVal(s[3]) * 10 + DigitVal(s[4]),
     month |-> DigitVal(s[6]) * 10 + DigitVal(s[7]),
     day   |-> DigitVal(s[9]) * 10 + DigitVal(s[10])]

\* one decimal digit of n as a character: position 0 is the units
DigitAt(n, pos) == Digits[((n \div (10 ^ pos)) % 10) + 1]

\* date.strftime('%Y-%m-%d')
Strftime(d) ==
    << DigitAt(d.year, 3), DigitAt(d.year, 2), DigitAt(d.year, 1), DigitAt(d.year, 0), "-",
       DigitAt(d.month, 1), DigitAt(d.month, 0), "-",
       DigitAt(d.day, 1), DigitAt(d.day, 0) >>

\* str(n) for a number below 100: a month, a day, an index
Str(n) == IF n >= 10 THEN <<DigitAt(n, 1), DigitAt(n, 0)>> ELSE <<DigitAt(n, 0)>>

IsLeap(y) == y % 4 = 0 /\ (y % 100 # 0 \/ y % 400 = 0)

DaysInMonth(y, m) ==
    IF m = 2 THEN (IF IsLeap(y) THEN 29 ELSE 28)
    ELSE IF m \in {4, 6, 9, 11} THEN 30 ELSE 31

RECURSIVE DaysBeforeMonth(_, _)
DaysBeforeMonth(y, m) == IF m = 1 THEN 0 ELSE DaysBeforeMonth(y, m - 1) + DaysInMonth(y, m - 1)

\* datetime.toordinal(): the proleptic Gregorian ordinal, 0001-01-01 is day 1
ToOrdinal(d) ==
    LET y == d.year - 1
    IN  y * 365 + (y \div 4) - (y \div 100) + (y \div 400) + DaysBeforeMonth(d.year, d.month) + d.day

\* datetime.weekday(): Monday is 0, Sunday is 6
Weekday(d) == (ToOrdinal(d) + 6) % 7

\* current <= end on datetimes: lexicographic on (year, month, day)
DateLE(a, b) ==
    \/ a.year < b.year
    \/ a.year = b.year /\ a.month < b.month
    \/ a.year = b.year /\ a.month = b.month /\ a.day <= b.day

\* current + timedelta(days=1)
AddOneDay(d) ==
    IF d.day < DaysInMonth(d.year, d.month) THEN [d EXCEPT !.day = d.day + 1]
    ELSE IF d.month < 12 THEN [d EXCEPT !.month = d.month + 1, !.day = 1]
    ELSE [year |-> d.year + 1, month |-> 1, day |-> 1]

\* Yields with the weekend test off by one: Saturday is not skipped
YieldsSundayOnly(current, skip_weekends) == ~(skip_weekends /\ Weekday(current) > 5)

\* the body of the while loop of generate_date_range: does it yield `current`?
Yields(current, skip_weekends) == ~(skip_weekends /\ Weekday(current) >= 5)

RECURSIVE DateLoop(_, _, _)
DateLoop(current, end, skip_weekends) ==
    IF ~DateLE(current, end) THEN <<>>
    ELSE IF Yields(current, skip_weekends)
         THEN <<current>> \o DateLoop(AddOneDay(current), end, skip_weekends)
         ELSE DateLoop(AddOneDay(current), end, skip_weekends)

\* DateRangeGenerator.generate_date_range: the sequence of datetimes it yields
GenerateDateRange(start_date, end_date, skip_weekends) ==
    DateLoop(Strptime(start_date), Strptime(end_date), skip_weekends)

(***************************************************************************)
(* Bounds of the model and the values the inputs are drawn from            *)
(***************************************************************************)
MaxRetriesBound == 2        \* max_retries is drawn from 0..MaxRetriesBound
MaxPagesBound == 2          \* max_pages_per_domain is drawn from 0..MaxPagesBound
MaxFailuresBound == 2       \* max_consecutive_failures is drawn from 0..MaxFailuresBound
MaxCalls == 2               \* calls the client makes on one scraper instance

\* ScrapingConfig.delay_range, the default (1, 3)
DelayMin == 1
DelayMax == 3

\* a Crawl-delay a robots.txt may declare: longer than any delay of delay_range
RobotsDelay == DelayMax + 2

\* another one, within delay_range
RobotsDelayShort == DelayMin + 1

\* scheme://netloc of the URLs; all URLs are https, so the key of the robots
\* cache (scheme://netloc) and the key of domain_counters (netloc) coincide
Domains == {"tldr.tech", "example.com"}

TemplateDomain == "tldr.tech"

\* the dates the client asks scrape_date_range for
DriverStart == <<"2", "0", "2", "5", "-", "0", "1", "-", "0", "2">>
DriverEnds ==
    { <<"2", "0", "2", "5", "-", "0", "1", "-", "0", "1">>,
      <<"2", "0", "2", "5", "-", "0", "1", "-", "0", "6">> }

\* the path a robots.txt of the model may disallow
BlockedPath == <<"/", "2", "0", "2", "5", "-", "0", "1", "-", "0", "3">>

\* the URLs the client calls scrape_url with
DirectUrls ==
    { [domain |-> "tldr.tech", path |-> BlockedPath],
      [domain |-> "example.com", path |-> <<"/", "a", "b", "o", "u", "t">>] }

NoUrl == [domain |-> "", path |-> <<>>]

\* the parsed content of a robots.txt: the Disallow prefixes and the Crawl-delay
\* of the entry that applies to the scraper's user agent
RobotsFiles ==
    { [disallow |-> {}, crawl_delay |-> None], [disallow |-> {BlockedPath}, crawl_delay |-> RobotsDelay] }

\* the robots.txt contents a domain may serve: example.com disallows nothing and
\* declares the shorter Crawl-delay
RobotsFilesOf(domain) ==
    IF domain = "example.com"
    THEN { [disallow |-> {}, crawl_delay |-> None], [disallow |-> {}, crawl_delay |-> RobotsDelayShort] }
    ELSE RobotsFiles

(***************************************************************************)
(* urllib.robotparser.RobotFileParser, as RobotsTxtChecker uses it         *)
(***************************************************************************)
\* RobotFileParser() after set_url(): nothing read yet
NewParser ==
    [last_checked |-> FALSE, allow_all |-> FALSE, disallow_all |-> FALSE,
     disallow |-> {}, crawl_delay |-> None]

\* rp.parse(lines): records the time of the check and the rules
Parse(rp, file) ==
    [rp EXCEPT !.last_checked = TRUE, !.disallow = file.disallow, !.crawl_delay = file.crawl_delay]

\* rp.read(): fetches the robots.txt again with urllib; status 0 is a URLError,
\* which read() does not catch
Read(rp, status, file) ==
    IF status = 200 THEN Parse(rp, file)
    ELSE IF status \in {401, 403} THEN [rp EXCEPT !.disallow_all = TRUE]
    ELSE IF status >= 400 /\ status < 500 THEN [rp EXCEPT !.allow_all = TRUE]
    ELSE rp

IsPrefix(p, s) == Len(p) <= Len(s) /\ SubSeq(s, 1, Len(p)) = p

\* rp.can_fetch(user_agent, url)
ParserCanFetch(rp, url) ==
    IF rp.disallow_all THEN FALSE
    ELSE IF rp.allow_all THEN TRUE
    ELSE IF ~rp.last_checked THEN FALSE
    ELSE \A p \in rp.disallow : ~IsPrefix(p, url.path)

\* rp.crawl_delay(user_agent)
ParserCrawlDelay(rp) == IF ~rp.last_checked THEN None ELSE rp.crawl_delay

(***************************************************************************)
(* RobotsTxtChecker                                                        *)
(***************************************************************************)
\* what the network answers to the robots.txt requests of one can_fetch: the
\* status and content of requests.get, and of the rp.read() that webscraper.py
\* issues after a 200 (status 0 is a network error or timeout)
RobotsResponses(domain) ==
    { [status |-> st, file |-> f, reread |-> rs] :
        st \in {200, 503, 0}, f \in RobotsFilesOf(domain), rs \in {200, 403, 404, 503, 0} }

\* the parser can_fetch stores for the domain, webscraper.py lines 52-79
LoadParserResponsible(resp) ==
    IF resp.status = 200 /\ resp.reread # 0
    THEN Read(NewParser, resp.reread, resp.file)
    ELSE NewParser

\* the parser can_fetch stores for the domain, lamda_webscraper.py lines 46-61
LoadParserLambda(resp) ==
    IF resp.status = 200 THEN Parse(NewParser, resp.file) ELSE NewParser

LoadParser(impl, resp) ==
    IF impl = "webscraper" THEN LoadParserResponsible(resp) ELSE LoadParserLambda(resp)

\* the robots.txt requests one load puts on the network
LoadRequests(impl, resp) ==
    IF impl = "webscraper" /\ resp.status = 200 THEN 2 ELSE 1

\* GetCrawlDelay that finds a Crawl-delay for a domain that is not cached
GetCrawlDelayUncached(url) ==
    IF url.domain \in DOMAIN robot_parsers
    THEN ParserCrawlDelay(robot_parsers[url.domain])
    ELSE RobotsDelay

\* RobotsTxtChecker.get_crawl_delay
GetCrawlDelay(url) ==
    IF url.domain \in DOMAIN robot_parsers
    THEN ParserCrawlDelay(robot_parsers[url.domain])
    ELSE None

(***************************************************************************)
(* ScrapingConfig and the state after construction                         *)
(***************************************************************************)
\* ScrapingConfig of webscraper.py
ResponsibleConfigs ==
    { [impl |-> "webscraper", max_retries |-> r, max_pages_per_domain |-> q,
       max_consecutive_failures |-> t, respect_robots_txt |-> rr,
       skip_weekends |-> sw, skip_missing_dates |-> sm] :
        r \in 0..MaxRetriesBound, q \in {0, MaxPagesBound}, t \in 0..MaxFailuresBound,
        rr \in BOOLEAN, sw \in BOOLEAN, sm \in BOOLEAN }

\* ScrapingConfig of lamda_webscraper.py: no domain quota, no date flags
LambdaConfigs ==
    { [impl |-> "lambda", max_retries |-> r, max_pages_per_domain |-> None,
       max_consecutive_failures |-> t, respect_robots_txt |-> rr,
       skip_weekends |-> FALSE, skip_missing_dates |-> FALSE] :
        r \in 0..MaxRetriesBound, t \in 0..MaxFailuresBound, rr \in BOOLEAN }

\* Optional[Dict]: None is the empty sequence, a page result is <<data>>
NoData == <<>>

IdleCall ==
    [pc |-> "idle", url |-> NoUrl, attempt |-> 0, delay |-> None, backoff |-> None,
     ret |-> NoData, outcome |-> "", gets |-> 0, cf0 |-> 0, dc0 |-> None]

NoDriver ==
    [pc |-> "none", dates |-> <<>>, i |-> 0, results |-> <<>>, outcomes |-> <<>>,
     requested |-> {}, aborted |-> FALSE, total_dates |-> 0, successful_scrapes |-> 0,
     cf_start |-> 0]

NoFn == [op |-> "none"]

\* no lambda_handler invocation
NoHandler ==
    [pc |-> "none", event |-> << >>, bucket |-> "", url_templates |-> <<>>, dates |-> <<>>,
     ci |-> 0, di |-> 0, category_results |-> <<>>, all_results |-> <<>>, outcomes |-> <<>>,
     response |-> << >>]

\* ResponsibleScraper.__init__ / LambdaScraper.__init__
ScraperInit ==
    /\ robot_parsers = << >>
    /\ domain_counters = << >>
    /\ consecutive_failures = 0
    /\ call = IdleCall
    /\ driver = NoDriver
    /\ net = [robots_requests |-> [d \in Domains |-> 0], robots_failed |-> {}, calls |-> 0]

Init ==
    /\ config \in ResponsibleConfigs \cup LambdaConfigs
    /\ ScraperInit
    /\ fn = NoFn
    /\ handler = NoHandler
    /\ s3 = <<>>

(***************************************************************************)
(* format_url_with_date: the URL template is a string, a sequence of       *)
(* characters; the scheme and host hold no placeholder and stay one value  *)
(***************************************************************************)
\* StrReplace that replaces the first occurrence only, as str.replace(old, new, 1)
RECURSIVE StrReplaceFirst(_, _, _)
StrReplaceFirst(s, old, new) ==
    IF Len(s) < Len(old) THEN s
    ELSE IF SubSeq(s, 1, Len(old)) = old
         THEN new \o SubSeq(s, Len(old) + 1, Len(s))
         ELSE <<Head(s)>> \o StrReplaceFirst(Tail(s), old, new)

\* s.replace(old, new): every occurrence, found from the left, none overlapping
RECURSIVE StrReplace(_, _, _)
StrReplace(s, old, new) ==
    IF Len(s) < Len(old) THEN s
    ELSE IF SubSeq(s, 1, Len(old)) = old
         THEN new \o StrReplace(SubSeq(s, Len(old) + 1, Len(s)), old, new)
         ELSE <<Head(s)>> \o StrReplace(Tail(s), old, new)

\* the replacements dictionary, in its insertion order: <<placeholder, value>>
Replacements(date) ==
    << << <<"{", "Y", "Y", "Y", "Y", "}">>, SubSeq(Strftime(date), 1, 4) >>,
       << <<"{", "M", "M", "}">>, SubSeq(Strftime(date), 6, 7) >>,
       << <<"{", "D", "D", "}">>, SubSeq(Strftime(date), 9, 10) >>,
       << <<"{", "Y", "Y", "Y", "Y", "-", "M", "M", "-", "D", "D", "}">>, Strftime(date) >>,
       << <<"{", "M", "}">>, Str(date.month) >>,
       << <<"{", "D", "}">>, Str(date.day) >> >>

\* for placeholder, value in replacements.items(): formatted_url = formatted_url.replace(...)
RECURSIVE ReplaceAll(_, _)
ReplaceAll(formatted_url, items) ==
    IF items = <<>> THEN formatted_url
    ELSE ReplaceAll(StrReplace(formatted_url, Head(items)[1], Head(items)[2]), Tail(items))

FormatUrlWithDate(url_template, date) ==
    [url_template EXCEPT !.path = ReplaceAll(url_template.path, Replacements(date))]

\* "https://tldr.tech/{YYYY-MM-DD}"
UrlTemplate ==
    [domain |-> TemplateDomain,
     path |-> <<"/", "{", "Y", "Y", "Y", "Y", "-", "M", "M", "-", "D", "D", "}">>]

(***************************************************************************)
(* Article extraction.  The parsed page (soup) is the sequence of its      *)
(* elements in document order; an element has a tag, a class attribute,    *)
(* the texts of its headings h1..h6 and the hrefs of its anchors, both in  *)
(* document order, and its text.  Of a record the model keeps record_id,   *)
(* title, link, source_page and extraction_index.                          *)
(***************************************************************************)
TagDiv == <<"d", "i", "v">>
TagArticle == <<"a", "r", "t", "i", "c", "l", "e">>

\* str(container): the markup of the element
RECURSIVE Joined(_, _, _)
Joined(texts, open, close) ==
    IF texts = <<>> THEN <<>>
    ELSE open \o Head(texts) \o close \o Joined(Tail(texts), open, close)

Serialized(e) ==
    <<"<">> \o e.tag
    \o (IF e.class # <<>> THEN <<" ", "c", "l", "a", "s", "s", "=", "\"">> \o e.class \o <<"\"">> ELSE <<>>)
    \o <<">">>
    \o Joined(e.headings, <<"<", "h", "3", ">">>, <<"<", "/", "h", "3", ">">>)
    \o Joined(e.hrefs, <<"<", "a", " ", "h", "r", "e", "f", "=", "\"">>, <<"\"", ">", "<", "/", "a", ">">>)
    \o e.text
    \o <<"<", "/">> \o e.tag \o <<">">>

\* pattern 1: div with a class where 'flex' in x and 'flex-col' or 'flex-row-reverse' in x
IsFlexCard(e) ==
    /\ e.tag = TagDiv
    /\ e.class # <<>>
    /\ Contains(e.class, <<"f", "l", "e", "x">>)
    /\ \/ Contains(e.class, <<"f", "l", "e", "x", "-", "c", "o", "l">>)
       \/ Contains(e.class, <<"f", "l", "e", "x", "-", "r", "o", "w", "-", "r", "e", "v", "e", "r", "s", "e">>)

\* pattern 2: article tags
IsArticleTag(e) == e.tag = TagArticle

\* pattern 3: div with a class that holds 'article', 'post', 'story' or 'item', in any case
IsClassDiv(e) ==
    /\ e.tag = TagDiv
    /\ e.class # <<>>
    /\ \E pattern \in { <<"a", "r", "t", "i", "c", "l", "e">>, <<"p", "o", "s", "t">>,
                        <<"s", "t", "o", "r", "y">>, <<"i", "t", "e", "m">> } :
           Contains(Lower(e.class), pattern)

\* article_containers after the three extend(soup.find_all(...))
ArticleContainers(soup) ==
    SelectSeq(soup, IsFlexCard) \o SelectSeq(soup, IsArticleTag) \o SelectSeq(soup, IsClassDiv)

\* the length of the fingerprint
FingerprintLen == 200

\* str(container)[:200]
Fingerprint(container) ==
    SubSeq(Serialized(container), 1, Min(FingerprintLen, Len(Serialized(container))))

\* Deduplicate that remembers only the fingerprint of the container before
RECURSIVE DeduplicateAdjacent(_, _)
DeduplicateAdjacent(containers, seen_containers) ==
    IF containers = <<>> THEN <<>>
    ELSE IF Fingerprint(Head(containers)) \notin seen_containers
         THEN <<Head(containers)>>
              \o DeduplicateAdjacent(Tail(containers), {Fingerprint(Head(containers))})
         ELSE DeduplicateAdjacent(Tail(containers), seen_containers)

\* the deduplication loop: unique_containers
RECURSIVE Deduplicate(_, _)
Deduplicate(containers, seen_containers) ==
    IF containers = <<>> THEN <<>>
    ELSE IF Fingerprint(Head(containers)) \notin seen_containers
         THEN <<Head(containers)>>
              \o Deduplicate(Tail(containers), seen_containers \cup {Fingerprint(Head(containers))})
         ELSE Deduplicate(Tail(containers), seen_containers)

\* the shortest text a title must exceed
MinTitleLen == 10

\* title = None
NoTitle == <<>>

\* TitleOk that accepts a text of exactly the length
TitleOkAtLeast(title_text) == title_text # <<>> /\ Len(title_text) >= MinTitleLen

\* if title_text and len(title_text) > 10
TitleOk(title_text) == title_text # <<>> /\ Len(title_text) > MinTitleLen

\* the loop over title_tags: the stripped text of the first heading that qualifies
RECURSIVE FirstTitle(_)
FirstTitle(title_tags) ==
    IF title_tags = <<>> THEN NoTitle
    ELSE IF TitleOk(Strip(Head(title_tags))) THEN Strip(Head(title_tags))
         ELSE FirstTitle(Tail(title_tags))

\* a link is a URL string: its scheme://netloc, empty when the href is used as it is
\* written, and the rest
NoLink == [base |-> "", href |-> <<>>]

\* urljoin(page_url, href) for an href that starts with '/': '//host/path' takes the
\* scheme of the page, '/path' its scheme and host
Urljoin(page_url, href) ==
    IF Len(href) >= 2 /\ href[2] = "/" THEN [base |-> "https:", href |-> href]
    ELSE [base |-> page_url.domain, href |-> href]

\* the loop over links: an external href ends it, a root-relative one is kept and the
\* loop goes on
RECURSIVE LinkLoop(_, _, _)
LinkLoop(links, page_url, article_link) ==
    IF links = <<>> THEN article_link
    ELSE LET href == Head(links)
         IN  IF href # <<>> /\ ~StartsWith(href, "#") /\ ~StartsWith(href, "/")
             THEN [base |-> "", href |-> href]
             ELSE IF href # <<>> /\ StartsWith(href, "/")
                  THEN LinkLoop(Tail(links), page_url, Urljoin(page_url, href))
                  ELSE LinkLoop(Tail(links), page_url, article_link)

\* hashlib.md5(content.encode()).hexdigest()[:16]: a digest of the characters of the
\* content, of fixed width
RECURSIVE Digest(_, _)
Digest(content, h) ==
    IF content = <<>> THEN h
    ELSE Digest(Tail(content), (h * 31 + Code(Head(content))) % (2 ^ 16))

\* _generate_article_id: the digest of f"{page_url}|{title}|{index}"
GenerateArticleId(page_url, title, index) ==
    Digest(<<page_url.domain>> \o page_url.path \o <<"|">> \o title \o <<"|">> \o Str(index), 0)

\* ArticleId with the link of the container hashed too
ArticleIdWithLink(container, page_url, title, index) ==
    Digest(<<page_url.domain>> \o page_url.path \o <<"|">> \o title \o <<"|">> \o Str(index)
               \o LinkLoop(container.hrefs, page_url, NoLink).href, 0)

\* article_id = self._generate_article_id(page_url, title, index)
ArticleId(container, page_url, title, index) == GenerateArticleId(page_url, title, index)

\* return None
NoArticle == <<>>

\* _parse_article_container when no step of it raises: None, or the record
ParseArticleContainer(container, page_url, index) ==
    LET title == FirstTitle(container.headings)
    IN  IF title = NoTitle THEN NoArticle
        ELSE << [record_id |-> ArticleId(container, page_url, title, index),
                 title |-> title,
                 link |-> LinkLoop(container.hrefs, page_url, NoLink),
                 source_page |-> page_url,
                 extraction_index |-> index] >>

\* if article and article.get('title'): articles.append(article)
Kept(article) == IF article # NoArticle /\ article[1].title # NoTitle THEN article ELSE <<>>

\* OnParseError that lets the exception out of _extract_articles
OnParseErrorRaise(acc) == [acc EXCEPT !.raised = TRUE]

\* except Exception: logger.warning(...); continue
OnParseError(acc) == acc

\* EnumerateIndex that numbers the records instead of the containers
EnumerateIndexOfRecords(idx, articles) == Len(articles)

\* for idx, container in enumerate(unique_containers): the index handed to the parse
EnumerateIndex(idx, articles) == idx

\* the loop over enumerate(unique_containers); acc is the articles list and whether an
\* exception has left the loop
RECURSIVE ParseLoop(_, _, _, _)
ParseLoop(unique_containers, page_url, idx, acc) ==
    IF idx >= Len(unique_containers) \/ acc.raised THEN acc
    ELSE LET container == unique_containers[idx + 1]
         IN  ParseLoop(unique_containers, page_url, idx + 1,
                 IF container.raises THEN OnParseError(acc)
                 ELSE [acc EXCEPT !.articles =
                           @ \o Kept(ParseArticleContainer(container, page_url,
                                         EnumerateIndex(idx, acc.articles)))])

\* _extract_articles(soup, page_url): the list it returns, or that it raises
ExtractArticles(soup, page_url) ==
    ParseLoop(Deduplicate(ArticleContainers(soup), {}), page_url, 0,
              [articles |-> <<>>, raised |-> FALSE])

(***************************************************************************)
(* The pages the network serves                                            *)
(***************************************************************************)
Rep(c, n) == [i \in 1..n |-> c]

ClassFlexCol == <<"f", "l", "e", "x", " ", "f", "l", "e", "x", "-", "c", "o", "l">>

PageUrl == [domain |-> TemplateDomain, path |-> <<"/", "2", "0", "2", "5", "-", "0", "1", "-", "0", "2">>]

\* the elements the pages are made of
CardA ==
    [tag |-> TagDiv, class |-> ClassFlexCol,
     headings |-> << <<" ", "B", "i", "g", " ", "n", "e", "w", "s", " ", "A", "I", " ">> >>,
     hrefs |-> << <<"h", "t", "t", "p", "s", ":", "/", "/", "e", ".", "c", "o", "m", "/", "x">> >>,
     text |-> <<>>, raises |-> FALSE]

\* a div both pattern 1 and pattern 3 find
CardB ==
    [tag |-> TagDiv, class |-> ClassFlexCol \o <<" ", "i", "t", "e", "m">>,
     headings |-> << <<"S", "e", "c", "o", "n", "d", " ", "t", "i", "t", "l", "e">> >>,
     hrefs |-> << <<"/", "a">> >>, text |-> <<>>, raises |-> FALSE]

\* an article element whose markup has n characters of text and then one more: with
\* 170 the last one is character 201 of the markup, with 169 it is character 200
Long(n, last) ==
    [tag |-> TagArticle, class |-> <<>>,
     headings |-> << <<"S", "e", "c", "o", "n", "d", " ", "t", "i", "t", "l", "e">> >>,
     hrefs |-> <<>>, text |-> Rep("x", n) \o <<last>>, raises |-> FALSE]

\* a candidate with no heading longer than 10 characters
NoHead ==
    [tag |-> TagDiv, class |-> <<"P", "o", "s", "t">>,
     headings |-> << <<"S", "h", "o", "r", "t", " ", "h", "e", "a", "d">> >>,
     hrefs |-> <<>>, text |-> <<>>, raises |-> FALSE]

\* an article element with no heading longer than 10 characters
Teaser ==
    [tag |-> TagArticle, class |-> <<>>,
     headings |-> << <<"S", "h", "o", "r", "t", " ", "h", "e", "a", "d">> >>,
     hrefs |-> <<>>, text |-> <<>>, raises |-> FALSE]

\* a candidate on which a step of _parse_article_container raises
Broken ==
    [tag |-> TagDiv, class |-> ClassFlexCol,
     headings |-> << <<" ", "B", "i", "g", " ", "n", "e", "w", "s", " ", "A", "I", " ">> >>,
     hrefs |-> <<>>, text |-> <<>>, raises |-> TRUE]

\* an element no pattern finds
Plain ==
    [tag |-> TagDiv, class |-> <<"n", "a", "v">>,
     headings |-> << <<"S", "e", "c", "o", "n", "d", " ", "t", "i", "t", "l", "e">> >>,
     hrefs |-> <<>>, text |-> <<>>, raises |-> FALSE]

\* the parsed page behind a URL: the page of a date that ends in 2 has two cards, the
\* one of a date that ends in 3 has no article, the one of a date that ends in 6 has
\* a card that fails to parse between two that do, any other page has one card
Site(url) ==
    LET last == url.path[Len(url.path)]
    IN  CASE last = "2" -> <<CardA, CardB>>
          [] last = "3" -> <<NoHead, Plain>>
          [] last = "6" -> <<CardA, Broken, CardB>>
          [] OTHER -> <<CardB>>

\* the URLs of the site: the ones the client asks for and the pages of a week
SiteUrls ==
    DirectUrls \cup
    { FormatUrlWithDate(UrlTemplate, d) :
        d \in Range(DateLoop([year |-> 2025, month |-> 1, day |-> 1],
                             [year |-> 2025, month |-> 1, day |-> 7], FALSE)) }
    \cup
    { [domain |-> TemplateDomain, path |-> section \o Strftime(d)] :
        section \in { <<"/", "t", "e", "c", "h", "/">>, <<"/", "a", "i", "/">> },
        d \in Range(DateLoop([year |-> 2025, month |-> 1, day |-> 1],
                             [year |-> 2025, month |-> 1, day |-> 7], FALSE)) }
    \cup
    { [domain |-> TemplateDomain,
       path |-> <<"/", "2", "0", "2", "5", "/", "0", "1", "/", "0">> \o <<day>>] :
        day \in {"1", "2", "3", "4", "5", "6", "7"} }

\* articles = self._extract_articles(soup, url), for the page of each URL
ArticlesOf == [url \in SiteUrls |-> ExtractArticles(Site(url), url).articles]

(***************************************************************************)
(* scrape_url                                                              *)
(***************************************************************************)
\* self.domain_counters.get(domain, 0)
CounterOf(domain) == IF domain \in DOMAIN domain_counters THEN domain_counters[domain] ELSE 0

\* the counter as the caller can observe it: None when the domain has no entry
CounterOrNone(domain) == IF domain \in DOMAIN domain_counters THEN domain_counters[domain] ELSE None

\* the caller enters scrape_url(url)
EnterScrapeUrl(url) ==
    [IdleCall EXCEPT !.pc = "should_scrape", !.url = url,
                     !.cf0 = consecutive_failures, !.dc0 = CounterOrNone(url.domain)]

\* _should_scrape_url, first check: the domain has reached its quota
QuotaReached(url) ==
    /\ config.impl = "webscraper"
    /\ url.domain \in DOMAIN domain_counters
    /\ domain_counters[url.domain] >= config.max_pages_per_domain

\* scrape_url returns None without an attempt
ReturnBlocked(why) == [call EXCEPT !.pc = "returned", !.ret = NoData, !.outcome = why]

\* ReturnFailed with the counter incremented once per attempt
ReturnFailedPerAttempt(c) ==
    /\ consecutive_failures' = consecutive_failures + config.max_retries
    /\ call' = [c EXCEPT !.pc = "returned", !.ret = NoData, !.outcome = "failed"]

\* the code after the for loop: every attempt failed
ReturnFailed(c) ==
    /\ consecutive_failures' = consecutive_failures + 1
    /\ call' = [c EXCEPT !.pc = "returned", !.ret = NoData, !.outcome = "failed"]

\* the for loop of scrape_url starts: range(max_retries) may be empty
EnterLoop ==
    IF config.max_retries > 0
    THEN /\ call' = [call EXCEPT !.pc = "delay", !.attempt = 0]
         /\ UNCHANGED consecutive_failures
    ELSE ReturnFailed(call)

\* _should_scrape_url with the quota reached: no robots check
ShouldScrapeQuota ==
    /\ call.pc = "should_scrape"
    /\ QuotaReached(call.url)
    /\ call' = ReturnBlocked("quota")
    /\ UNCHANGED <<config, robot_parsers, domain_counters, consecutive_failures, driver, net, fn,
                   handler, s3>>

\* _should_scrape_url with respect_robots_txt off: straight to the loop
ShouldScrapeNoRobots ==
    /\ call.pc = "should_scrape"
    /\ ~QuotaReached(call.url)
    /\ ~config.respect_robots_txt
    /\ EnterLoop
    /\ UNCHANGED <<config, robot_parsers, domain_counters, driver, net, fn, handler, s3>>

\* RobotsChecked with the answer of can_fetch ignored
RobotsCheckedIgnored(parsers) ==
    /\ robot_parsers' = parsers
    /\ EnterLoop

\* what RobotsTxtChecker.can_fetch does with the answer and what scrape_url does next
RobotsChecked(parsers) ==
    /\ robot_parsers' = parsers
    /\ IF ParserCanFetch(parsers[call.url.domain], call.url)
       THEN EnterLoop
       ELSE /\ call' = ReturnBlocked("robots")
            /\ UNCHANGED consecutive_failures

\* _should_scrape_url, robots check, the domain is not cached: can_fetch loads robots.txt
ShouldScrapeLoadRobots ==
    /\ call.pc = "should_scrape"
    /\ ~QuotaReached(call.url)
    /\ config.respect_robots_txt
    /\ call.url.domain \notin DOMAIN robot_parsers
    /\ \E resp \in RobotsResponses(call.url.domain) :
         /\ net' = [net EXCEPT !.robots_requests[call.url.domain] =
                                   @ + LoadRequests(config.impl, resp),
                               !.robots_failed =
                                   IF resp.status = 200 THEN @ ELSE @ \cup {call.url.domain}]
         /\ RobotsChecked([d \in DOMAIN robot_parsers \cup {call.url.domain} |->
                              IF d = call.url.domain THEN LoadParser(config.impl, resp)
                              ELSE robot_parsers[d]])
    /\ UNCHANGED <<config, domain_counters, driver, fn, handler, s3>>

\* _should_scrape_url, robots check, the domain is cached
ShouldScrapeCachedRobots ==
    /\ call.pc = "should_scrape"
    /\ ~QuotaReached(call.url)
    /\ config.respect_robots_txt
    /\ call.url.domain \in DOMAIN robot_parsers
    /\ RobotsChecked(robot_parsers)
    /\ UNCHANGED <<config, domain_counters, driver, net, fn, handler, s3>>

\* GetDelay without the Crawl-delay of robots.txt
GetDelayOfRangeOnly(url, random) == random

\* _get_delay: the delay waited before an attempt
GetDelay(url, random) ==
    IF Truthy(GetCrawlDelay(url)) THEN Max(GetCrawlDelay(url), random) ELSE random

\* the start of an attempt: delay = self._get_delay(url); time.sleep(delay)
WaitDelay ==
    /\ call.pc = "delay"
    /\ \E random \in DelayMin..DelayMax :
         call' = [call EXCEPT !.pc = "get", !.delay = GetDelay(call.url, random)]
    /\ UNCHANGED <<config, robot_parsers, domain_counters, consecutive_failures, driver, net, fn,
                   handler, s3>>

\* PageData with the containers counted instead of the records
PageDataCountsContainers(url) ==
    [url |-> url,
     articles |-> ArticlesOf[url],
     article_count |-> Len(Deduplicate(ArticleContainers(Site(url)), {})),
     status_code |-> 200]

\* the page result scrape_url builds: of its keys the url, the articles, their count
\* and the status
PageData(url) ==
    [url |-> url,
     articles |-> ArticlesOf[url],
     article_count |-> Len(ArticlesOf[url]),
     status_code |-> 200]

\* the driver notes that the date it is at was requested
NoteRequested == IF driver.pc = "wait" THEN [driver EXCEPT !.requested = @ \cup {driver.i}] ELSE driver

\* self.domain_counters[domain] = self.domain_counters.get(domain, 0) + 1
CountPage(domain) ==
    IF config.impl = "webscraper"
    THEN [d \in DOMAIN domain_counters \cup {domain} |->
             IF d = domain THEN CounterOf(domain) + 1 ELSE domain_counters[d]]
    ELSE domain_counters

\* AfterSuccess without the reset
AfterSuccessKept(failures) == failures

\* the value consecutive_failures takes after a successful GET
AfterSuccess(failures) == 0

\* session.get succeeds and raise_for_status passes
GetSucceeds ==
    /\ call.pc = "get"
    /\ domain_counters' = CountPage(call.url.domain)
    /\ consecutive_failures' = AfterSuccess(consecutive_failures)
    /\ call' = [call EXCEPT !.pc = "returned", !.ret = <<PageData(call.url)>>,
                            !.outcome = "success", !.gets = @ + 1]
    /\ driver' = NoteRequested
    /\ UNCHANGED <<config, robot_parsers, net, fn, handler, s3>>

\* MoreAttempts of a loop that retries until the GET succeeds
MoreAttemptsAlways(attempt) == TRUE

\* MoreAttempts off by one: an attempt too many
MoreAttemptsOneMore(attempt) == attempt < config.max_retries

\* is there another attempt after a failed one?
MoreAttempts(attempt) == attempt < config.max_retries - 1

\* Backoff that grows by a second per attempt
BackoffLinear(attempt) == attempt + 1

\* time.sleep(2 ** attempt): the seconds waited after a failed attempt that is not the last
Backoff(attempt) == 2 ^ attempt

\* session.get or raise_for_status raises a RequestException
GetFails ==
    /\ call.pc = "get"
    /\ LET c == [call EXCEPT !.gets = @ + 1]
       IN  IF MoreAttempts(call.attempt)
           THEN /\ call' = [c EXCEPT !.pc = "delay", !.attempt = @ + 1,
                                     !.backoff = Backoff(call.attempt)]
                /\ UNCHANGED consecutive_failures
           ELSE ReturnFailed(c)
    /\ driver' = NoteRequested
    /\ UNCHANGED <<config, robot_parsers, domain_counters, net, fn, handler, s3>>

(***************************************************************************)
(* scrape_date_range                                                       *)
(***************************************************************************)
\* the client calls scrape_date_range(url_template, start_date, end_date)
ClientScrapeDateRange ==
    /\ handler.pc = "none"
    /\ config.impl = "webscraper"
    /\ call.pc = "idle" /\ driver.pc = "none"
    /\ net.calls < MaxCalls
    /\ \E end_date \in DriverEnds :
         driver' = [NoDriver EXCEPT !.pc = "loop", !.i = 1, !.cf_start = consecutive_failures,
                       !.dates = GenerateDateRange(DriverStart, end_date, config.skip_weekends)]
    /\ net' = [net EXCEPT !.calls = @ + 1]
    /\ UNCHANGED <<config, robot_parsers, domain_counters, consecutive_failures, call, fn,
                   handler, s3>>

\* BreakerTripped with > for >=: one date too many
BreakerTrippedLate == consecutive_failures > config.max_consecutive_failures

\* the circuit breaker at the top of the loop body
BreakerTripped == consecutive_failures >= config.max_consecutive_failures

\* the generator is exhausted: the loop ends and the summary is logged
DriverExhausted ==
    /\ driver.pc = "loop"
    /\ driver.i > Len(driver.dates)
    /\ driver' = [driver EXCEPT !.pc = "done"]
    /\ UNCHANGED <<config, robot_parsers, domain_counters, consecutive_failures, call, net, fn,
                   handler, s3>>

\* the loop body up to the break
DriverBreak ==
    /\ driver.pc = "loop"
    /\ driver.i <= Len(driver.dates)
    /\ BreakerTripped
    /\ driver' = [driver EXCEPT !.pc = "done", !.aborted = TRUE, !.total_dates = @ + 1]
    /\ UNCHANGED <<config, robot_parsers, domain_counters, consecutive_failures, call, net, fn,
                   handler, s3>>

\* url = self.date_generator.format_url_with_date(url_template, date_obj), for each date
\* of the client's ranges
RangeUrls ==
    [date \in UNION { Range(GenerateDateRange(DriverStart, end_date, FALSE)) :
                        end_date \in DriverEnds } |->
        FormatUrlWithDate(UrlTemplate, date)]

\* the loop body up to data = self.scrape_url(url)
DriverScrape ==
    /\ driver.pc = "loop"
    /\ driver.i <= Len(driver.dates)
    /\ ~BreakerTripped
    /\ call.pc = "idle"
    /\ call' = EnterScrapeUrl(RangeUrls[driver.dates[driver.i]])
    /\ driver' = [driver EXCEPT !.pc = "wait", !.total_dates = @ + 1]
    /\ UNCHANGED <<config, robot_parsers, domain_counters, consecutive_failures, net, fn,
                   handler, s3>>

\* Appended with the data dropped
AppendedNothing(data, date) == <<>>

\* what the loop appends to results for the date: the data with its date, or nothing
Appended(data, date) ==
    IF data # NoData
    THEN <<SetItem(data[1], "scraped_date", Strftime(date))>>
    ELSE <<>>

\* AfterDate that leaves the loop at a failed date when skip_missing_dates is off
AfterDateStopsOnFailure(data) ==
    IF data = NoData /\ ~config.skip_missing_dates THEN "done" ELSE "loop"

\* where the loop body ends: after a page, and after a failed date, where `if not
\* self.config.skip_missing_dates` only logs "continuing anyway", at the next date
AfterDate(data) == "loop"

\* the loop body after scrape_url returned
DriverReceive ==
    /\ driver.pc = "wait"
    /\ call.pc = "returned"
    /\ driver' = [driver EXCEPT
           !.pc = AfterDate(call.ret),
           !.i = @ + 1,
           !.results = @ \o Appended(call.ret, driver.dates[driver.i]),
           !.successful_scrapes = @ + Len(Appended(call.ret, driver.dates[driver.i])),
           !.outcomes = Append(@, call.outcome)]
    /\ call' = IdleCall
    /\ UNCHANGED <<config, robot_parsers, domain_counters, consecutive_failures, net, fn,
                   handler, s3>>

\* return results: the client has the list
DriverReturn ==
    /\ driver.pc = "done"
    /\ driver' = NoDriver
    /\ UNCHANGED <<config, robot_parsers, domain_counters, consecutive_failures, call, net, fn,
                   handler, s3>>

(***************************************************************************)
(* The client of a scraper instance                                        *)
(***************************************************************************)
\* the client calls scrape_url(url) itself, as the __main__ block does
ClientScrapeUrl ==
    /\ handler.pc = "none"
    /\ call.pc = "idle" /\ driver.pc = "none"
    /\ net.calls < MaxCalls
    /\ \E url \in DirectUrls : call' = EnterScrapeUrl(url)
    /\ net' = [net EXCEPT !.calls = @ + 1]
    /\ UNCHANGED <<config, robot_parsers, domain_counters, consecutive_failures, driver, fn,
                   handler, s3>>

\* the client has the result of its scrape_url call
ClientReceive ==
    /\ handler.pc = "none"
    /\ driver.pc = "none"
    /\ call.pc = "returned"
    /\ call' = IdleCall
    /\ UNCHANGED <<config, robot_parsers, domain_counters, consecutive_failures, driver, net, fn,
                   handler, s3>>

Next ==
    \/ ClientScrapeUrl
    \/ ClientReceive
    \/ ShouldScrapeQuota
    \/ ShouldScrapeNoRobots
    \/ ShouldScrapeLoadRobots
    \/ ShouldScrapeCachedRobots
    \/ WaitDelay
    \/ GetSucceeds
    \/ GetFails
    \/ ClientScrapeDateRange
    \/ DriverExhausted
    \/ DriverBreak
    \/ DriverScrape
    \/ DriverReceive
    \/ DriverReturn

Spec == Init /\ [][Next]_vars

(***************************************************************************)
(* scrape_date_range alone, with the progress of the program: every step   *)
(* of the sequential code is taken in the end, a sleep ends, and a request *)
(* gets its answer or its error                                            *)
(***************************************************************************)
InitRange ==
    /\ config \in ResponsibleConfigs
    /\ ScraperInit
    /\ fn = NoFn
    /\ handler = NoHandler
    /\ s3 = <<>>

NextRange ==
    \/ ClientScrapeDateRange
    \/ DriverExhausted
    \/ DriverBreak
    \/ DriverScrape
    \/ DriverReceive
    \/ DriverReturn
    \/ ShouldScrapeQuota
    \/ ShouldScrapeNoRobots
    \/ ShouldScrapeLoadRobots
    \/ ShouldScrapeCachedRobots
    \/ WaitDelay
    \/ GetSucceeds
    \/ GetFails

SpecRange == InitRange /\ [][NextRange]_vars /\ WF_vars(NextRange)

(***************************************************************************)
(* scrape_url alone: a client that calls it on scrapers with more retries  *)
(***************************************************************************)
MaxTries == 4               \* max_retries is drawn from 0..MaxTries

\* the configurations of the scrapers, with the default max_consecutive_failures
CallConfigs ==
    { [impl |-> i, max_retries |-> r,
       max_pages_per_domain |-> IF i = "webscraper" THEN q ELSE None,
       max_consecutive_failures |-> 5, respect_robots_txt |-> rr,
       skip_weekends |-> FALSE, skip_missing_dates |-> TRUE] :
        i \in {"webscraper", "lambda"}, r \in 0..MaxTries, q \in {0, MaxPagesBound},
        rr \in BOOLEAN }

InitCalls ==
    /\ config \in CallConfigs
    /\ ScraperInit
    /\ fn = NoFn
    /\ handler = NoHandler
    /\ s3 = <<>>

NextCalls ==
    \/ ClientScrapeUrl
    \/ ClientReceive
    \/ ShouldScrapeQuota
    \/ ShouldScrapeNoRobots
    \/ ShouldScrapeLoadRobots
    \/ ShouldScrapeCachedRobots
    \/ WaitDelay
    \/ GetSucceeds
    \/ GetFails

SpecCalls == InitCalls /\ [][NextCalls]_vars

(***************************************************************************)
(* lambda_handler of lamda_webscraper.py                                   *)
(***************************************************************************)
MaxCategories == 2          \* categories of an event

\* max_retries=event.get('max_retries', 3)
DefaultMaxRetries == 3

\* the category names of the events: one needs lower()
Categories == { <<"t", "e", "c", "h">>, <<"A", "I">> }

\* the dates of the events: the page of the first has articles, that of the second none
EventDates ==
    { <<"2", "0", "2", "5", "-", "0", "1", "-", "0", "2">>,
      <<"2", "0", "2", "5", "-", "0", "1", "-", "0", "3">> }

\* the day before datetime.now()
Yesterdays == { <<"2", "0", "2", "5", "-", "0", "1", "-", "0", "2">> }

\* a url_template of an event: "https://tldr.tech/{YYYY}/{MM}/{DD}"
CustomTemplate ==
    [domain |-> TemplateDomain,
     path |-> <<"/", "{", "Y", "Y", "Y", "Y", "}", "/", "{", "M", "M", "}", "/", "{", "D", "D", "}">>]

\* the events: a dictionary with some of the keys category, categories, url_template,
\* date, start_date, end_date and max_retries
Events ==
    { c @@ d @@ r :
        c \in { [category |-> x] : x \in Categories }
              \cup { [categories |-> xs] : xs \in SeqsUpTo(Categories, MaxCategories) }
              \cup { [url_template |-> CustomTemplate], << >> },
        d \in { [date |-> x] : x \in EventDates }
              \cup { [start_date |-> x, end_date |-> y] : x \in EventDates, y \in EventDates }
              \cup { [start_date |-> DriverStart], << >> },
        r \in { [max_retries |-> x] : x \in 0..MaxRetriesBound } \cup { << >> } }

\* TLDR_CATEGORIES[category], and the template of a category it does not hold, which
\* has the same form: 'https://tldr.tech/<category>/{YYYY-MM-DD}'
CategoryTemplate(category) ==
    [domain |-> TemplateDomain,
     path |-> <<"/">> \o category
              \o <<"/", "{", "Y", "Y", "Y", "Y", "-", "M", "M", "-", "D", "D", "}">>]

\* url_templates: the template and the category of each category of the event
UrlTemplates(event) ==
    IF "category" \in DOMAIN event
    THEN << [template |-> CategoryTemplate(Lower(event.category)),
             category |-> Lower(event.category)] >>
    ELSE IF "categories" \in DOMAIN event
    THEN [i \in DOMAIN event.categories |->
             [template |-> CategoryTemplate(Lower(event.categories[i])),
              category |-> Lower(event.categories[i])]]
    ELSE IF "url_template" \in DOMAIN event
    THEN << [template |-> event.url_template, category |-> <<"c", "u", "s", "t", "o", "m">>] >>
    ELSE << [template |-> CategoryTemplate(<<"t", "e", "c", "h">>),
             category |-> <<"t", "e", "c", "h">>] >>

\* generate_date_range(start, end) of lamda_webscraper.py: the list of date strings
GenerateDateStrings(start, end) ==
    LET days == DateLoop(Strptime(start), Strptime(end), FALSE)
    IN  [i \in DOMAIN days |-> Strftime(days[i])]

\* dates: the date of the event, its range, or yesterday
Dates(event, yesterday) ==
    IF "date" \in DOMAIN event THEN <<event.date>>
    ELSE IF "start_date" \in DOMAIN event /\ "end_date" \in DOMAIN event
    THEN GenerateDateStrings(event.start_date, event.end_date)
    ELSE <<yesterday>>

\* ScrapingConfig(user_agent=..., delay_range=..., max_retries=event.get('max_retries', 3))
HandlerConfig(event) ==
    [impl |-> "lambda",
     max_retries |-> IF "max_retries" \in DOMAIN event THEN event.max_retries
                     ELSE DefaultMaxRetries,
     max_pages_per_domain |-> None, max_consecutive_failures |-> 5,
     respect_robots_txt |-> TRUE, skip_weekends |-> FALSE, skip_missing_dates |-> FALSE]

\* os.environ.get('S3_BUCKET'): unset is the empty name
Buckets == {"", "tldr-bucket"}

\* BucketMissing that never finds the bucket missing
BucketMissingNever(bucket) == FALSE

\* if not bucket
BucketMissing(bucket) == bucket = ""

InitLambda ==
    /\ config = HandlerConfig(<< >>)
    /\ ScraperInit
    /\ fn = NoFn
    /\ handler \in { [NoHandler EXCEPT !.pc = "start", !.event = e, !.bucket = b] :
                       e \in Events, b \in Buckets }
    /\ s3 = <<>>

\* lambda_handler(event, context) up to the loops: the bucket check, url_templates,
\* dates and the scraper
HandlerStart ==
    /\ handler.pc = "start"
    /\ IF BucketMissing(handler.bucket)
       THEN /\ handler' = [handler EXCEPT
                   !.pc = "done",
                   !.response = [statusCode |-> 500,
                                 body |-> [error |-> "S3_BUCKET environment variable not set"]]]
            /\ UNCHANGED <<config, robot_parsers, consecutive_failures>>
       ELSE /\ \E yesterday \in Yesterdays :
                   handler' = [handler EXCEPT
                       !.pc = "loop", !.ci = 1, !.di = 1,
                       !.url_templates = UrlTemplates(handler.event),
                       !.dates = Dates(handler.event, yesterday)]
            /\ config' = HandlerConfig(handler.event)
            /\ robot_parsers' = << >>
            /\ consecutive_failures' = 0
    /\ UNCHANGED <<domain_counters, call, driver, net, fn, s3>>

\* the body of the inner loop up to data = scraper.scrape_url(url)
HandlerScrape ==
    /\ handler.pc = "loop"
    /\ handler.ci <= Len(handler.url_templates)
    /\ handler.di <= Len(handler.dates)
    /\ call.pc = "idle"
    /\ call' = EnterScrapeUrl(FormatUrlWithDate(handler.url_templates[handler.ci].template,
                                                Strptime(handler.dates[handler.di])))
    /\ handler' = [handler EXCEPT !.pc = "wait"]
    /\ UNCHANGED <<config, robot_parsers, domain_counters, consecutive_failures, driver, net, fn, s3>>

\* an S3 key: its path components
FullKey(category, date_str) == <<"scraped_data", category, "full", date_str>>

ArticlesKey(category, date_str) == <<"scraped_data", category, "articles", date_str>>

\* articles_key = None
NoKey == <<>>

\* HasArticles that is true of every page
HasArticlesAlways(data) == TRUE

\* if data.get('articles')
HasArticles(data) == data.articles # <<>>

\* the put_object calls of a scraped pair: the full page and, if it has articles, the articles
Puts(data, url, category, date_str) ==
    << [Key |-> FullKey(category, date_str), Body |-> data] >>
    \o (IF HasArticles(data)
        THEN << [Key |-> ArticlesKey(category, date_str),
                 Body |-> [date |-> date_str, category |-> category, url |-> url,
                           article_count |-> Len(data.articles),
                           articles |-> data.articles]] >>
        ELSE <<>>)

\* the entry of a scraped pair in category_results
SuccessEntry(data, url, category, date_str) ==
    [date |-> date_str, category |-> category, url |-> url,
     full_data_key |-> FullKey(category, date_str),
     articles_key |-> IF HasArticles(data) THEN ArticlesKey(category, date_str) ELSE NoKey,
     article_count |-> Len(data.articles),
     status |-> "success"]

\* FailedEntries that records nothing for a failed pair
FailedEntriesNone(url, category, date_str) == <<>>

\* what the else branch appends to category_results
FailedEntries(url, category, date_str) ==
    << [date |-> date_str, category |-> category, url |-> url, status |-> "failed"] >>

\* the body of the inner loop after scrape_url returned
HandlerReceive ==
    /\ handler.pc = "wait"
    /\ call.pc = "returned"
    /\ LET category == handler.url_templates[handler.ci].category
           date_str == handler.dates[handler.di]
           url == call.url
           data == IF call.ret # NoData
                   THEN SetItem(SetItem(call.ret[1], "scraped_date", date_str),
                                "category", category)
                   ELSE << >>
       IN  /\ s3' = IF call.ret # NoData THEN s3 \o Puts(data, url, category, date_str) ELSE s3
           /\ handler' = [handler EXCEPT
                  !.pc = "loop",
                  !.di = @ + 1,
                  !.category_results =
                      @ \o (IF call.ret # NoData
                            THEN <<SuccessEntry(data, url, category, date_str)>>
                            ELSE FailedEntries(url, category, date_str)),
                  !.outcomes = Append(@, [outcome |-> call.outcome, ret |-> call.ret])]
    /\ call' = IdleCall
    /\ UNCHANGED <<config, robot_parsers, domain_counters, consecutive_failures, driver, net, fn>>

\* the end of the inner loop: all_results.extend(category_results)
HandlerNextCategory ==
    /\ handler.pc = "loop"
    /\ handler.ci <= Len(handler.url_templates)
    /\ handler.di > Len(handler.dates)
    /\ handler' = [handler EXCEPT
           !.ci = @ + 1, !.di = 1,
           !.all_results = @ \o handler.category_results,
           !.category_results = <<>>]
    /\ UNCHANGED <<config, robot_parsers, domain_counters, consecutive_failures, call, driver, net, fn, s3>>

\* sum(1 for r in all_results if r['status'] == status)
RECURSIVE CountStatus(_, _)
CountStatus(results, status) ==
    IF results = <<>> THEN 0
    ELSE (IF Head(results).status = status THEN 1 ELSE 0) + CountStatus(Tail(results), status)

\* sum(r.get('article_count', 0) for r in all_results)
RECURSIVE SumArticleCount(_)
SumArticleCount(results) ==
    IF results = <<>> THEN 0
    ELSE (IF "article_count" \in DOMAIN Head(results) THEN Head(results).article_count ELSE 0)
         + SumArticleCount(Tail(results))

\* the summary of the response
Summary(all_results) ==
    [total_urls_processed |-> Len(all_results),
     successful |-> CountStatus(all_results, "success"),
     failed |-> CountStatus(all_results, "failed"),
     total_articles |-> SumArticleCount(all_results),
     categories_processed |-> {all_results[i].category : i \in DOMAIN all_results},
     dates_processed |-> {all_results[i].date : i \in DOMAIN all_results}]

\* the end of the outer loop: the summary and the response
HandlerReturn ==
    /\ handler.pc = "loop"
    /\ handler.ci > Len(handler.url_templates)
    /\ handler' = [handler EXCEPT
           !.pc = "done",
           !.response = [statusCode |-> 200,
                         body |-> [summary |-> Summary(handler.all_results),
                                   results |-> handler.all_results]]]
    /\ UNCHANGED <<config, robot_parsers, domain_counters, consecutive_failures, call, driver, net, fn, s3>>

NextLambda ==
    \/ HandlerStart
    \/ HandlerScrape
    \/ HandlerReceive
    \/ HandlerNextCategory
    \/ HandlerReturn
    \/ ShouldScrapeLoadRobots
    \/ ShouldScrapeCachedRobots
    \/ WaitDelay
    \/ GetSucceeds
    \/ GetFails

SpecLambda == InitLambda /\ [][NextLambda]_vars

(***************************************************************************)
(* Either program: a client of a scraper, or an invocation of the Lambda   *)
(***************************************************************************)
InitAll == Init \/ InitLambda

NextAll == Next \/ NextLambda

SpecAll == InitAll /\ [][NextAll]_vars

(***************************************************************************)
(* generate_date_range as a function of its arguments                      *)
(***************************************************************************)
WindowDays == 8             \* days in each window the date arguments are drawn from

RECURSIVE DaysFrom(_, _)
DaysFrom(d, n) == IF n = 0 THEN {} ELSE {Strftime(d)} \cup DaysFrom(AddOneDay(d), n - 1)

\* the windows start_date and end_date are drawn from: one over a year's end and
\* one over the end of February of a leap year
DateWindows ==
    { DaysFrom([year |-> 2024, month |-> 12, day |-> 30], WindowDays),
      DaysFrom([year |-> 2024, month |-> 2, day |-> 27], WindowDays) }

DefaultConfig ==
    [impl |-> "webscraper", max_retries |-> 3, max_pages_per_domain |-> 100,
     max_consecutive_failures |-> 5, respect_robots_txt |-> TRUE,
     skip_weekends |-> FALSE, skip_missing_dates |-> TRUE]

InitDates ==
    /\ config = DefaultConfig
    /\ ScraperInit
    /\ handler = NoHandler
    /\ s3 = <<>>
    /\ \E w \in DateWindows :
         fn \in { [op |-> "generate_date_range", start_date |-> s, end_date |-> e,
                   skip_weekends |-> sw, done |-> FALSE, out |-> <<>>] :
                     s \in w, e \in w, sw \in BOOLEAN }

\* list(DateRangeGenerator.generate_date_range(start_date, end_date, skip_weekends))
CallGenerateDateRange ==
    /\ fn.op = "generate_date_range"
    /\ ~fn.done
    /\ fn' = [fn EXCEPT !.done = TRUE,
                        !.out = GenerateDateRange(fn.start_date, fn.end_date, fn.skip_weekends)]
    /\ UNCHANGED <<config, robot_parsers, domain_counters, consecutive_failures, call, driver, net,
                   handler, s3>>

NextDates == CallGenerateDateRange

SpecDates == InitDates /\ [][NextDates]_vars

(***************************************************************************)
(* format_url_with_date as a function of its arguments                     *)
(***************************************************************************)
\* the paths of the URL templates format_url_with_date is called with: the
\* supported placeholders alone, repeated and adjacent, unknown placeholders,
\* braces around and inside placeholders, and no placeholder
FormatTemplates ==
    { <<"/", "{", "Y", "Y", "Y", "Y", "-", "M", "M", "-", "D", "D", "}">>,
      <<"/", "{", "Y", "Y", "Y", "Y", "}", "/", "{", "M", "M", "}", "/", "{", "D", "D", "}">>,
      <<"/", "{", "M", "}", "/", "{", "D", "}">>,
      <<"/", "{", "M", "}", "{", "M", "}", "/", "{", "M", "M", "}">>,
      <<"/", "{", "X", "}", "/", "{", "y", "y", "y", "y", "}", "/", "{", "Y", "Y", "}">>,
      <<"/", "{", "{", "M", "}", "}">>,
      <<"/", "{", "M", "{", "M", "}", "}">>,
      <<"/", "{", "Y", "Y", "Y", "Y", "-", "{", "M", "M", "}", "-", "D", "D", "}">>,
      <<"/", "p", "l", "a", "i", "n">>,
      <<"/", "{", "Y", "Y", "Y", "Y", "}", "{", "Y", "Y", "Y", "Y", "-", "M", "M", "-", "D", "D", "}",
        "{", "D", "}", "{", "D", "D", "}">> }

\* the dates it is called with: months and days of one and of two digits
FormatDates ==
    { [year |-> 2025, month |-> 3, day |-> 7], [year |-> 2025, month |-> 11, day |-> 23],
      [year |-> 2024, month |-> 12, day |-> 9], [year |-> 2025, month |-> 10, day |-> 1],
      [year |-> 2024, month |-> 2, day |-> 29], [year |-> 2025, month |-> 1, day |-> 10],
      [year |-> 2024, month |-> 7, day |-> 4], [year |-> 2025, month |-> 12, day |-> 31] }

InitFormat ==
    /\ config = DefaultConfig
    /\ ScraperInit
    /\ handler = NoHandler
    /\ s3 = <<>>
    /\ fn \in { [op |-> "format_url_with_date",
                 url_template |-> [domain |-> TemplateDomain, path |-> t],
                 date_str |-> Strftime(d), done |-> FALSE, out |-> NoUrl] :
                   t \in FormatTemplates, d \in FormatDates }

\* format_url_with_date(url_template, date_str) of lamda_webscraper.py, which parses the
\* date and then does what DateRangeGenerator.format_url_with_date does
CallFormatUrlWithDate ==
    /\ fn.op = "format_url_with_date"
    /\ ~fn.done
    /\ fn' = [fn EXCEPT !.done = TRUE,
                        !.out = FormatUrlWithDate(fn.url_template, Strptime(fn.date_str))]
    /\ UNCHANGED <<config, robot_parsers, domain_counters, consecutive_failures, call, driver, net,
                   handler, s3>>

NextFormat == CallFormatUrlWithDate

SpecFormat == InitFormat /\ [][NextFormat]_vars

(***************************************************************************)
(* _parse_article_container and _extract_articles as functions of their    *)
(* arguments                                                               *)
(***************************************************************************)
MaxHeadings == 2            \* headings of a container handed to _parse_article_container
MaxHrefs == 2               \* anchors with an href of such a container
MaxContainers == 3          \* elements of a page handed to _extract_articles

\* heading texts: blank, of 10 characters bare and padded, of 11 padded, of 12
HeadingTexts ==
    { <<" ", " ">>,
      <<"S", "h", "o", "r", "t", " ", "h", "e", "a", "d">>,
      <<" ", " ", "S", "h", "o", "r", "t", " ", "h", "e", "a", "d", "\n">>,
      <<" ", "B", "i", "g", " ", "n", "e", "w", "s", " ", "A", "I", " ">>,
      <<"S", "e", "c", "o", "n", "d", " ", "t", "i", "t", "l", "e">> }

\* hrefs: empty, a fragment, two that start with '/', an external one
Hrefs ==
    { <<>>,
      <<"#", "t", "o", "p">>,
      <<"/", "a">>,
      <<"/", "/", "e", ".", "c", "o", "m", "/", "b">>,
      <<"h", "t", "t", "p", "s", ":", "/", "/", "e", ".", "c", "o", "m", "/", "x">> }

Elements ==
    { CardA, CardB, Long(FingerprintLen - 30, "1"), Long(FingerprintLen - 30, "2"),
      Long(FingerprintLen - 31, "2"), NoHead, Teaser, Broken, Plain }

InitExtract ==
    /\ config = DefaultConfig
    /\ ScraperInit
    /\ handler = NoHandler
    /\ s3 = <<>>
    /\ fn \in { [op |-> "parse_article_container",
                 container |-> [tag |-> TagDiv, class |-> ClassFlexCol, headings |-> h,
                                hrefs |-> l, text |-> <<>>, raises |-> FALSE],
                 page_url |-> PageUrl, index |-> i, done |-> FALSE, out |-> NoArticle] :
                   h \in SeqsUpTo(HeadingTexts, MaxHeadings), l \in SeqsUpTo(Hrefs, MaxHrefs),
                   i \in 0..1 }
           \cup
              { [op |-> "extract_articles", soup |-> s, page_url |-> PageUrl, done |-> FALSE,
                 unique_containers |-> <<>>, out |-> <<>>, raised |-> FALSE] :
                   s \in SeqsUpTo(Elements, MaxContainers) }

\* self._parse_article_container(container, page_url, index)
CallParseArticleContainer ==
    /\ fn.op = "parse_article_container"
    /\ ~fn.done
    /\ fn' = [fn EXCEPT !.done = TRUE,
                        !.out = ParseArticleContainer(fn.container, fn.page_url, fn.index)]
    /\ UNCHANGED <<config, robot_parsers, domain_counters, consecutive_failures, call, driver, net,
                   handler, s3>>

\* self._extract_articles(soup, page_url)
CallExtractArticles ==
    /\ fn.op = "extract_articles"
    /\ ~fn.done
    /\ fn' = [fn EXCEPT !.done = TRUE,
                        !.unique_containers = Deduplicate(ArticleContainers(fn.soup), {}),
                        !.out = ExtractArticles(fn.soup, fn.page_url).articles,
                        !.raised = ExtractArticles(fn.soup, fn.page_url).raised]
    /\ UNCHANGED <<config, robot_parsers, domain_counters, consecutive_failures, call, driver, net,
                   handler, s3>>

NextExtract ==
    \/ CallParseArticleContainer
    \/ CallExtractArticles

SpecExtract == InitExtract /\ [][NextExtract]_vars

(***************************************************************************)
(* C10  generate_date_range yields, in strictly ascending order, exactly   *)
(* one entry for every calendar day from start to end inclusive, leaving   *)
(* out exactly the Saturdays and Sundays when skip_weekends is set; start  *)
(* after end yields nothing; Friday 2025-01-03 to Monday 2025-01-06 with   *)
(* skip_weekends yields exactly 01-03 and 01-06.                           *)
(***************************************************************************)
IsCalendarDate(d) ==
    /\ d.month \in 1..12
    /\ d.day \in 1..DaysInMonth(d.year, d.month)

\* the ordinals of the days an expansion must hold: Saturday and Sunday are the
\* ordinals congruent to 6 and 0 modulo 7
ExpectedOrdinals(first, last, skip) ==
    { n \in first..last : ~(skip /\ n % 7 \in {6, 0}) }

Friday20250103 == <<"2", "0", "2", "5", "-", "0", "1", "-", "0", "3">>
Monday20250106 == <<"2", "0", "2", "5", "-", "0", "1", "-", "0", "6">>

\* C10: the yielded dates are calendar dates, ascending, exactly the expected days
C10_DateRangeExact ==
    (fn.op = "generate_date_range" /\ fn.done) =>
        LET out == fn.out
            first == ToOrdinal(Strptime(fn.start_date))
            last == ToOrdinal(Strptime(fn.end_date))
        IN  /\ \A i \in DOMAIN out : IsCalendarDate(out[i])
            /\ \A i, j \in DOMAIN out : i < j => ToOrdinal(out[i]) < ToOrdinal(out[j])
            /\ {ToOrdinal(out[i]) : i \in DOMAIN out}
                   = ExpectedOrdinals(first, last, fn.skip_weekends)
            /\ (first > last => out = <<>>)
            /\ (fn.start_date = Friday20250103 /\ fn.end_date = Monday20250106
                    /\ fn.skip_weekends)
                 => out = << [year |-> 2025, month |-> 1, day |-> 3],
                             [year |-> 2025, month |-> 1, day |-> 6] >>

C10_Witness ==
    /\ fn.op = "generate_date_range" /\ fn.done
    /\ fn.start_date = Friday20250103 /\ fn.end_date = Monday20250106
    /\ fn.skip_weekends
    /\ Len(fn.out) = 2

(***************************************************************************)
(* C1  When the robots.txt fetch for a domain fails (non-200, network      *)
(* error, timeout), can_fetch answers true for every URL of that domain    *)
(* for the rest of the run: no scrape_url call on the domain is blocked    *)
(* because of the failed fetch.                                            *)
(***************************************************************************)
\* the URLs of a domain the model knows
UrlsOf(domain) ==
    { u \in DirectUrls \cup {FormatUrlWithDate(UrlTemplate, Strptime(d)) : d \in {DriverStart} \cup DriverEnds} :
        u.domain = domain }

\* C1: a domain whose robots.txt fetch failed has a cached parser that allows every
\* URL, and no call returns blocked by robots on such a domain
C1_FailedRobotsFetchIsPermissive ==
    /\ \A d \in net.robots_failed :
         /\ d \in DOMAIN robot_parsers
         /\ \A u \in UrlsOf(d) : ParserCanFetch(robot_parsers[d], u)
    /\ (call.pc = "returned" /\ call.outcome = "robots") => call.url.domain \notin net.robots_failed

(***************************************************************************)
(* C2  scrape_date_range aborts the remaining dates as soon as             *)
(* consecutive_failures has reached max_consecutive_failures, and issues   *)
(* no request for a later date.  The count of failing dates attempted is   *)
(* the threshold less the failures the scraper had already counted when    *)
(* the run of failures began: exactly the threshold on a fresh scraper or  *)
(* after a success.                                                        *)
(***************************************************************************)
RECURSIVE FailuresSinceSuccess(_)
\* the dates whose every attempt failed, since the last success of this call
FailuresSinceSuccess(outcomes) ==
    IF outcomes = <<>> THEN 0
    ELSE LET last == outcomes[Len(outcomes)]
             rest == SubSeq(outcomes, 1, Len(outcomes) - 1)
         IN  IF last = "success" THEN 0
             ELSE FailuresSinceSuccess(rest) + (IF last = "failed" THEN 1 ELSE 0)

\* the failures counted before this call that no success has reset yet
Carried == IF \E k \in DOMAIN driver.outcomes : driver.outcomes[k] = "success" THEN 0 ELSE driver.cf_start

\* C2 as written: whenever the breaker trips, exactly max_consecutive_failures
\* failing dates were attempted
C2_ExactlyThresholdAttempted ==
    driver.aborted => FailuresSinceSuccess(driver.outcomes) = config.max_consecutive_failures

\* C2 as amended: the counter follows the failures of the scraper, no scrape_url call
\* starts with the counter at the threshold, nothing is requested past the break, and
\* exactly the threshold is attempted when no failure was carried into the run
C2_BreakerAbortsAtThreshold ==
    /\ driver.pc \in {"loop", "done"} =>
           consecutive_failures = Carried + FailuresSinceSuccess(driver.outcomes)
    /\ driver.pc = "wait" => call.cf0 < config.max_consecutive_failures
    /\ driver.pc \in {"loop", "wait", "done"} =>
           driver.requested \subseteq 1..(IF driver.pc = "wait" THEN driver.i ELSE Len(driver.outcomes))
    /\ driver.aborted =>
           /\ driver.pc = "done"
           /\ consecutive_failures >= config.max_consecutive_failures
           /\ Len(driver.outcomes) < Len(driver.dates)
    /\ (driver.aborted /\ Carried = 0) =>
           FailuresSinceSuccess(driver.outcomes) = config.max_consecutive_failures
    /\ (driver.pc = "done" /\ ~driver.aborted) => Len(driver.outcomes) = Len(driver.dates)

C2_Witness ==
    /\ driver.aborted
    /\ config.max_consecutive_failures = 2
    /\ Carried = 0
    /\ FailuresSinceSuccess(driver.outcomes) = 2
    /\ Len(driver.outcomes) + 1 < Len(driver.dates)

(***************************************************************************)
(* C3  When the circuit breaker trips, scrape_date_range returns normally  *)
(* with every success gathered before the trip, in date order.  The        *)
(* returned list holds page results only: a date whose scrape failed has   *)
(* no entry in it.                                                         *)
(***************************************************************************)
RECURSIVE SuccessEntries(_, _)
\* the entries of the dates scraped with success, in the order of the dates
SuccessEntries(dates, outcomes) ==
    IF outcomes = <<>> THEN <<>>
    ELSE LET k == Len(outcomes)
             before == SuccessEntries(dates, SubSeq(outcomes, 1, k - 1))
         IN  IF outcomes[k] = "success"
             THEN Append(before, SetItem(PageData(FormatUrlWithDate(UrlTemplate, dates[k])),
                                         "scraped_date", Strftime(dates[k])))
             ELSE before

\* C3 as written: every attempted date that failed has an entry in the results
C3_FailedDatesHaveEntries ==
    driver.pc = "done" =>
        \A k \in DOMAIN driver.outcomes :
            driver.outcomes[k] = "failed" =>
                \E r \in Range(driver.results) : r.scraped_date = Strftime(driver.dates[k])

\* C3 as amended: the results are the entries of the successful dates, in order,
\* and a tripped breaker ends in the normal return
C3_ReturnsTheSuccesses ==
    /\ driver.pc \in {"loop", "wait", "done"} =>
           /\ driver.results = SuccessEntries(driver.dates, driver.outcomes)
           /\ driver.successful_scrapes = Len(driver.results)
    /\ driver.aborted => driver.pc = "done"

C3_Witness ==
    /\ driver.pc = "done" /\ driver.aborted
    /\ Len(driver.results) >= 1
    /\ \E k \in DOMAIN driver.outcomes : driver.outcomes[k] = "failed"

(***************************************************************************)
(* C4  A scrape_url call on a URL robots.txt disallows returns no result,  *)
(* issues no GET for the page and leaves consecutive_failures and the      *)
(* domain counter as they were.                                            *)
(***************************************************************************)
\* the robots check is on and the parser cached for the URL's domain refuses the URL
RobotsRefuses(url) ==
    /\ config.respect_robots_txt
    /\ url.domain \in DOMAIN robot_parsers
    /\ ~ParserCanFetch(robot_parsers[url.domain], url)

\* scrape_url returned None without a GET and without touching a counter
Skipped ==
    /\ call.pc = "returned"
    /\ call.ret = NoData
    /\ call.gets = 0
    /\ consecutive_failures = call.cf0
    /\ CounterOrNone(call.url.domain) = call.dc0

\* C4: past the checks, a call on a URL the parser refuses has returned, skipped
C4_RobotsBlockedIsSkipped ==
    (call.pc \in {"delay", "get", "returned"} /\ RobotsRefuses(call.url)) => Skipped

C4_Witness ==
    /\ call.pc = "returned" /\ call.outcome = "robots"
    /\ RobotsRefuses(call.url)
    /\ robot_parsers[call.url.domain].last_checked
    /\ call.cf0 > 0

(***************************************************************************)
(* C5  A scrape_url call on a URL whose domain has already reached         *)
(* max_pages_per_domain is skipped: no result, no GET, no counter changed. *)
(***************************************************************************)
\* the pages fetched from the URL's domain when the call began had reached the quota
QuotaWasReached ==
    /\ config.impl = "webscraper"
    /\ (IF call.dc0 = None THEN 0 ELSE call.dc0) >= config.max_pages_per_domain

\* C5: past the checks, a call that began with the domain at its quota has returned, skipped
C5_QuotaReachedIsSkipped ==
    (call.pc \in {"delay", "get", "returned"} /\ QuotaWasReached) => Skipped

(***************************************************************************)
(* C6  When every attempt for a URL fails, scrape_url returns None instead *)
(* of raising and consecutive_failures goes up by exactly one for the URL, *)
(* not by one per attempt.                                                 *)
(***************************************************************************)
\* C6: the counter is untouched during the attempts and one higher after exhaustion
C6_ExhaustionCountsOnce ==
    /\ call.pc \in {"delay", "get"} => consecutive_failures = call.cf0
    /\ (call.pc = "returned" /\ call.outcome = "failed") =>
           /\ call.ret = NoData
           /\ call.gets = config.max_retries
           /\ consecutive_failures = call.cf0 + 1
           /\ CounterOrNone(call.url.domain) = call.dc0

C6_Witness ==
    /\ call.pc = "returned" /\ call.outcome = "failed"
    /\ call.gets = 2
    /\ call.cf0 = 1

(***************************************************************************)
(* C7  Any successful fetch resets consecutive_failures to zero, also a    *)
(* success on a retry: after a successful scrape_url the counter is 0.     *)
(***************************************************************************)
\* C7: a call that returned data leaves the counter at 0
C7_SuccessResetsFailures ==
    (call.pc = "returned" /\ call.ret # NoData) =>
        /\ call.outcome = "success"
        /\ consecutive_failures = 0

C7_Witness ==
    /\ call.pc = "returned" /\ call.ret # NoData
    /\ call.attempt >= 1
    /\ call.cf0 > 0

(***************************************************************************)
(* C8  For one URL scrape_url issues at most max_retries GETs, a further   *)
(* one only after the previous one failed, and none after a success.       *)
(***************************************************************************)
\* C8: at most max_retries GETs; in the loop every GET so far failed; a success is the last GET
C8_AttemptsBounded ==
    /\ call.gets <= config.max_retries
    /\ call.pc \in {"delay", "get"} =>
           /\ call.attempt < config.max_retries
           /\ call.gets = call.attempt
           /\ call.ret = NoData /\ call.outcome = ""
    /\ (call.pc = "returned" /\ call.outcome = "success") => call.gets = call.attempt + 1

C8_Witness ==
    /\ call.pc = "returned" /\ call.outcome = "success"
    /\ call.gets = 2 /\ config.max_retries = 2

(***************************************************************************)
(* C9  The robots.txt of a domain is retrieved over the network only       *)
(* during the first can_fetch query for the domain, and exactly once;      *)
(* later queries are answered from the cache.                              *)
(***************************************************************************)
\* C9: one robots.txt request for a cached domain, none for the others
C9_RobotsFetchedExactlyOnce ==
    \A d \in Domains :
        net.robots_requests[d] = (IF d \in DOMAIN robot_parsers THEN 1 ELSE 0)

(***************************************************************************)
(* C11  format_url_with_date replaces every occurrence of each supported   *)
(* placeholder by the value of the date (MM and DD zero-padded, M and D    *)
(* not) and leaves every other character, unknown brace placeholders       *)
(* included, as it is; the result holds no supported placeholder, so       *)
(* formatting it again with the same date changes nothing.                 *)
(***************************************************************************)
\* the supported placeholders with the values the claim gives them
Supported(date) ==
    { << <<"{", "Y", "Y", "Y", "Y", "}">>,
         <<DigitAt(date.year, 3), DigitAt(date.year, 2), DigitAt(date.year, 1), DigitAt(date.year, 0)>> >>,
      << <<"{", "M", "M", "}">>, <<DigitAt(date.month, 1), DigitAt(date.month, 0)>> >>,
      << <<"{", "D", "D", "}">>, <<DigitAt(date.day, 1), DigitAt(date.day, 0)>> >>,
      << <<"{", "Y", "Y", "Y", "Y", "-", "M", "M", "-", "D", "D", "}">>,
         <<DigitAt(date.year, 3), DigitAt(date.year, 2), DigitAt(date.year, 1), DigitAt(date.year, 0),
           "-", DigitAt(date.month, 1), DigitAt(date.month, 0),
           "-", DigitAt(date.day, 1), DigitAt(date.day, 0)>> >>,
      << <<"{", "M", "}">>, IF date.month < 10 THEN <<DigitAt(date.month, 0)>>
                            ELSE <<DigitAt(date.month, 1), DigitAt(date.month, 0)>> >>,
      << <<"{", "D", "}">>, IF date.day < 10 THEN <<DigitAt(date.day, 0)>>
                            ELSE <<DigitAt(date.day, 1), DigitAt(date.day, 0)>> >> }

\* one pass over the string: a supported placeholder that starts here gives way to its
\* value, any other character is copied
RECURSIVE Substituted(_, _)
Substituted(s, date) ==
    IF s = <<>> THEN <<>>
    ELSE IF \E p \in Supported(date) : IsPrefix(p[1], s)
         THEN LET p == CHOOSE q \in Supported(date) : IsPrefix(q[1], s)
              IN  p[2] \o Substituted(SubSeq(s, Len(p[1]) + 1, Len(s)), date)
         ELSE <<Head(s)>> \o Substituted(Tail(s), date)

\* C11: the result is the template with every supported placeholder substituted and
\* nothing else touched, it holds no supported placeholder, and formatting it again
\* returns it; /{YYYY}/{MM}/{DD} on 2025-03-07 gives /2025/03/07
C11_FormatSubstitutesAll ==
    (fn.op = "format_url_with_date" /\ fn.done) =>
        LET date == Strptime(fn.date_str)
        IN  /\ fn.out.domain = fn.url_template.domain
            /\ fn.out.path = Substituted(fn.url_template.path, date)
            /\ \A p \in Supported(date) : ~Contains(fn.out.path, p[1])
            /\ FormatUrlWithDate(fn.out, date) = fn.out
            /\ (fn.url_template.path = <<"/", "{", "Y", "Y", "Y", "Y", "}", "/", "{", "M", "M", "}",
                                        "/", "{", "D", "D", "}">>
                    /\ date = [year |-> 2025, month |-> 3, day |-> 7])
                 => fn.out.path = <<"/", "2", "0", "2", "5", "/", "0", "3", "/", "0", "7">>

C11_Witness ==
    /\ fn.op = "format_url_with_date" /\ fn.done
    /\ fn.url_template.path = <<"/", "{", "M", "}", "{", "M", "}", "/", "{", "M", "M", "}">>
    /\ fn.date_str = <<"2", "0", "2", "5", "-", "0", "3", "-", "0", "7">>
    /\ fn.out.path = <<"/", "3", "3", "/", "0", "3">>

(***************************************************************************)
(* C12  A container yields a record only if it holds a heading whose       *)
(* trimmed text is strictly longer than 10 characters, and the title of    *)
(* the record is the first such heading in document order: a heading of    *)
(* exactly 10 characters is rejected, one of 11 accepted, and a container  *)
(* with no qualifying heading is absent from the result.                   *)
(***************************************************************************)
\* the text without its leading and trailing whitespace
Trimmed(s) ==
    LET inked == {i \in DOMAIN s : s[i] \notin {" ", "\n"}}
    IN  IF inked = {} THEN <<>>
        ELSE SubSeq(s, CHOOSE i \in inked : \A j \in inked : i <= j,
                       CHOOSE i \in inked : \A j \in inked : i >= j)

\* the positions of the headings that qualify as a title
Qualifying(headings) == {i \in DOMAIN headings : Len(Trimmed(headings[i])) > 10}

\* the title the claim gives a container with a qualifying heading
ClaimedTitle(headings) ==
    Trimmed(headings[CHOOSE i \in Qualifying(headings) : \A j \in Qualifying(headings) : i <= j])

\* C12: a parsed container gives a record exactly when a heading qualifies, with the
\* first qualifying heading, trimmed, as title; the records of a page have titles of
\* more than 10 characters, each the claimed title of an element of the page
C12_TitleIsFirstLongHeading ==
    /\ (fn.op = "parse_article_container" /\ fn.done) =>
           /\ (fn.out = NoArticle) <=> (Qualifying(fn.container.headings) = {})
           /\ fn.out # NoArticle =>
                  /\ fn.out[1].title = ClaimedTitle(fn.container.headings)
                  /\ Len(fn.out[1].title) >= 11
    /\ (fn.op = "extract_articles" /\ fn.done) =>
           \A k \in DOMAIN fn.out :
               /\ Len(fn.out[k].title) > 10
               /\ \E e \in Range(fn.soup) :
                      /\ Qualifying(e.headings) # {}
                      /\ fn.out[k].title = ClaimedTitle(e.headings)

C12_Witness ==
    /\ fn.op = "parse_article_container" /\ fn.done
    /\ fn.container.headings =
           << <<" ", " ", "S", "h", "o", "r", "t", " ", "h", "e", "a", "d", "\n">>,
              <<" ", "B", "i", "g", " ", "n", "e", "w", "s", " ", "A", "I", " ">> >>
    /\ fn.out # NoArticle
    /\ fn.out[1].title = <<"B", "i", "g", " ", "n", "e", "w", "s", " ", "A", "I">>

(***************************************************************************)
(* C13  After the deduplication of _extract_articles no two kept           *)
(* containers have the same fingerprint (the first 200 characters of the   *)
(* markup), each kept container is the first discovered one with its       *)
(* fingerprint, and the kept containers are in discovery order (flex-card  *)
(* divs, article elements, class-substring divs); two candidates equal in  *)
(* their first 200 characters collapse to one even if they differ later.   *)
(***************************************************************************)
\* the first 200 characters of the markup of an element
First200(e) == LET markup == Serialized(e) IN [i \in 1..Min(200, Len(markup)) |-> markup[i]]

\* the positions of the candidates that no earlier candidate shares its first 200
\* characters with, given the first 200 characters of each
FirstOfItsKind(of_candidate) ==
    {i \in DOMAIN of_candidate : \A j \in 1..(i - 1) : of_candidate[j] # of_candidate[i]}

\* the k-th smallest member of a set of numbers
Kth(P, k) == CHOOSE i \in P : Cardinality({j \in P : j < i}) = k - 1

\* C13: the kept containers are the candidates that are the first with their
\* fingerprint, in the order of discovery; no two of them share a fingerprint and
\* the candidates of one fingerprint have collapsed to one
C13_DedupKeepsFirstOfFingerprint ==
    (fn.op = "extract_articles" /\ fn.done) =>
        LET candidates == ArticleContainers(fn.soup)
            kept == fn.unique_containers
            of_candidate == [i \in DOMAIN candidates |-> First200(candidates[i])]
            of_kept == [k \in DOMAIN kept |-> First200(kept[k])]
            first == FirstOfItsKind(of_candidate)
        IN  /\ Len(kept) = Cardinality(first)
            /\ \A k \in DOMAIN kept : kept[k] = candidates[Kth(first, k)]
            /\ \A i, j \in DOMAIN kept : i < j => of_kept[i] # of_kept[j]
            /\ \A i \in DOMAIN candidates :
                   Cardinality({k \in DOMAIN kept : of_kept[k] = of_candidate[i]}) = 1

\* two articles that differ in character 201 only, round a card found by two patterns
C13_Witness ==
    /\ fn.op = "extract_articles" /\ fn.done
    /\ fn.soup = <<Long(170, "1"), CardB, Long(170, "2")>>
    /\ fn.unique_containers = <<CardB, Long(170, "1")>>

(***************************************************************************)
(* C14  record_id is a function of (page URL, title, index) alone: two     *)
(* extractions with the same triple give the same id whatever else the     *)
(* container holds.                                                        *)
(***************************************************************************)
\* containers that differ from c in their anchors, their text and a leading blank
\* heading, none of which can change the title
Variants(c) ==
    { [c EXCEPT !.hrefs = l, !.text = t, !.headings = h \o c.headings] :
        l \in SeqsUpTo(Hrefs, 1), t \in {<<>>, <<"x">>}, h \in {<<>>, << <<" ", " ">> >>} }

\* C14: a container parsed at the same index of the same page with the same title has
\* the same record_id, whatever its anchors, text and other headings
C14_RecordIdDependsOnTripleOnly ==
    (fn.op = "parse_article_container" /\ fn.done /\ fn.out # NoArticle) =>
        \A c \in Variants(fn.container) :
            LET other == ParseArticleContainer(c, fn.page_url, fn.index)
            IN  /\ other # NoArticle
                /\ other[1].title = fn.out[1].title
                /\ other[1].record_id = fn.out[1].record_id

C14_Witness ==
    /\ fn.op = "parse_article_container" /\ fn.done /\ fn.out # NoArticle
    /\ fn.index = 1
    /\ fn.container.hrefs = << <<"/", "a">> >>
    /\ fn.out[1].link # NoLink
    /\ \E c \in Variants(fn.container) :
           ParseArticleContainer(c, fn.page_url, fn.index)[1].link = NoLink

(***************************************************************************)
(* C15  _extract_articles always returns a list and never raises: a        *)
(* container whose parse fails is skipped while every other container is   *)
(* still parsed and, if it has a title, included in its original relative  *)
(* order; a page with no qualifying container yields the empty list.       *)
(***************************************************************************)
\* the positions of the kept containers that parse and have a title
Yielding(unique_containers) ==
    {k \in DOMAIN unique_containers :
        ~unique_containers[k].raises /\ Qualifying(unique_containers[k].headings) # {}}

\* C15: no exception leaves _extract_articles, and the list holds one record for each
\* kept container that parses and has a title, in the order of the containers
C15_ExtractSkipsFailedContainers ==
    (fn.op = "extract_articles" /\ fn.done) =>
        LET unique == fn.unique_containers
        IN  /\ ~fn.raised
            /\ Len(fn.out) = Cardinality(Yielding(unique))
            /\ \A n \in DOMAIN fn.out :
                   /\ fn.out[n].extraction_index = Kth(Yielding(unique), n) - 1
                   /\ fn.out[n].title = ClaimedTitle(unique[Kth(Yielding(unique), n)].headings)
            /\ Yielding(unique) = {} => fn.out = <<>>

\* a failing container between two that yield a record
C15_Witness ==
    /\ fn.op = "extract_articles" /\ fn.done
    /\ fn.soup = <<CardA, Broken, Long(170, "1")>>
    /\ fn.unique_containers = fn.soup
    /\ Len(fn.out) = 2
    /\ fn.out[1].extraction_index = 0 /\ fn.out[2].extraction_index = 2

(***************************************************************************)
(* C16  The link of a record is the first href in document order that is   *)
(* neither a fragment (#...) nor root-relative (/...), used unchanged; if  *)
(* the hrefs of the container are root-relative ones (and fragments) only, *)
(* the link is the first root-relative href resolved against the page URL; *)
(* with no usable href the link is absent.                                 *)
(***************************************************************************)
\* the positions of the hrefs that are neither empty, nor a fragment, nor root-relative
External(hrefs) == {i \in DOMAIN hrefs : hrefs[i] # <<>> /\ hrefs[i][1] \notin {"#", "/"}}

\* the positions of the root-relative hrefs
RootRelative(hrefs) == {i \in DOMAIN hrefs : hrefs[i] # <<>> /\ hrefs[i][1] = "/"}

\* C16: the link of a record is the first external href as it is written, else the
\* first root-relative href resolved against the page URL, else absent
C16_LinkIsFirstUsableHref ==
    (fn.op = "parse_article_container" /\ fn.done /\ fn.out # NoArticle) =>
        LET hrefs == fn.container.hrefs
        IN  fn.out[1].link =
                IF External(hrefs) # {}
                THEN [base |-> "", href |-> hrefs[Kth(External(hrefs), 1)]]
                ELSE IF RootRelative(hrefs) # {}
                     THEN Urljoin(fn.page_url, hrefs[Kth(RootRelative(hrefs), 1)])
                     ELSE NoLink

(***************************************************************************)
(* C17: every page result scrape_url returns has article_count equal to    *)
(* the length of its articles, and so has every page result the date-range *)
(* driver holds after adding scraped_date and every object lambda_handler  *)
(* has written after adding scraped_date and category.                     *)
(***************************************************************************)
CountMatches(data) == data.article_count = Len(data.articles)

C17_ArticleCountIsLength ==
    /\ call.ret # NoData => CountMatches(call.ret[1])
    /\ \A k \in DOMAIN driver.results : CountMatches(driver.results[k])
    /\ \A k \in DOMAIN s3 : CountMatches(s3[k].Body)

\* lambda_handler has written the full page and the articles of a page with two articles
C17_Witness ==
    \E j \in DOMAIN s3, k \in DOMAIN s3 :
        /\ j < k
        /\ {"scraped_date", "category"} \subseteq DOMAIN s3[j].Body
        /\ s3[j].Body.article_count = 2
        /\ Len(s3[j].Body.articles) = 2
        /\ "scraped_date" \notin DOMAIN s3[k].Body
        /\ s3[k].Body.article_count = 2
        /\ s3[k].Body.articles = s3[j].Body.articles

(***************************************************************************)
(* C18: when S3_BUCKET is not set, lambda_handler returns the error        *)
(* response at once: when it has left its start it is done with status     *)
(* code 500 and the error message, and before that no scrape_url call was  *)
(* made, no robots.txt was requested, no GET was sent and no object was    *)
(* put.                                                                    *)
(***************************************************************************)
NothingDone ==
    /\ call = IdleCall
    /\ \A d \in Domains : net.robots_requests[d] = 0
    /\ robot_parsers = << >>
    /\ domain_counters = << >>
    /\ s3 = <<>>
    /\ handler.outcomes = <<>>
    /\ handler.category_results = <<>>
    /\ handler.all_results = <<>>

C18_NoBucketFailsAtOnce ==
    (handler.pc \notin {"none", "start"} /\ handler.bucket = "")
        => /\ handler.pc = "done"
           /\ handler.response.statusCode = 500
           /\ DOMAIN handler.response.body = {"error"}
           /\ NothingDone

\* the invocation of an event with two categories and two dates has returned without a bucket
C18_Witness ==
    /\ handler.pc = "done"
    /\ handler.bucket = ""
    /\ "categories" \in DOMAIN handler.event
    /\ Len(handler.event.categories) = 2
    /\ "end_date" \in DOMAIN handler.event
    /\ handler.event.start_date # handler.event.end_date
    /\ handler.response.statusCode = 500

(***************************************************************************)
(* C19: the objects lambda_handler has put are, pair by pair in the order  *)
(* of the loops: for a pair whose scrape_url returned a page, one object   *)
(* under scraped_data/<category>/full/<date> and, if and only if the page  *)
(* has at least one article, one more under                                *)
(* scraped_data/<category>/articles/<date>; for a pair whose scrape_url    *)
(* returned None, no object.                                               *)
(***************************************************************************)
\* the category and the date of the k-th pair of the loops
PairCategory(k) == handler.url_templates[((k - 1) \div Len(handler.dates)) + 1].category

PairDate(k) == handler.dates[((k - 1) % Len(handler.dates)) + 1]

Scraped(k) == handler.outcomes[k].ret # NoData

Found(k) == Scraped(k) /\ Len(handler.outcomes[k].ret[1].articles) >= 1

ObjectsOf(k) == IF ~Scraped(k) THEN 0 ELSE IF Found(k) THEN 2 ELSE 1

\* the number of objects of the pairs before the k-th
RECURSIVE ObjectsBefore(_)
ObjectsBefore(k) == IF k <= 1 THEN 0 ELSE ObjectsBefore(k - 1) + ObjectsOf(k - 1)

C19_ObjectsPerPair ==
    /\ Len(s3) = ObjectsBefore(Len(handler.outcomes) + 1)
    /\ \A k \in DOMAIN handler.outcomes :
          /\ Scraped(k) =>
                /\ s3[ObjectsBefore(k) + 1].Key
                       = <<"scraped_data", PairCategory(k), "full", PairDate(k)>>
                /\ s3[ObjectsBefore(k) + 1].Body.articles = handler.outcomes[k].ret[1].articles
          /\ Found(k) =>
                /\ s3[ObjectsBefore(k) + 2].Key
                       = <<"scraped_data", PairCategory(k), "articles", PairDate(k)>>
                /\ s3[ObjectsBefore(k) + 2].Body.articles = handler.outcomes[k].ret[1].articles

\* an invocation has returned after a pair that failed, a pair with articles and a pair
\* whose page has none
C19_Witness ==
    /\ handler.pc = "done"
    /\ Len(handler.url_templates) = 2
    /\ \E i \in DOMAIN handler.outcomes, j \in DOMAIN handler.outcomes,
          k \in DOMAIN handler.outcomes :
          /\ ~Scraped(i)
          /\ Found(j)
          /\ Scraped(k) /\ ~Found(k)
    /\ Len(s3) = 3

(***************************************************************************)
(* C20: the result entries of lambda_handler are one per (category, date)  *)
(* pair of the loops, in the order of the loops (the categories in the     *)
(* order of the event, under each the dates ascending), each with status   *)
(* success or failed as scrape_url returned a page or None; the response   *)
(* holds an entry for every pair, and its summary has                      *)
(* total_urls_processed = successful + failed = categories x dates and     *)
(* total_articles the sum of the article counts of the successes.          *)
(***************************************************************************)
\* the entries recorded so far, and those of the response once it is built
Recorded ==
    IF handler.pc = "done" /\ handler.response.statusCode = 200
    THEN handler.response.body.results
    ELSE handler.all_results \o handler.category_results

\* the articles of the pages of the first k pairs
RECURSIVE ArticlesFound(_)
ArticlesFound(k) ==
    IF k = 0 THEN 0
    ELSE ArticlesFound(k - 1)
         + (IF Scraped(k) THEN Len(handler.outcomes[k].ret[1].articles) ELSE 0)

C20_OneEntryPerPair ==
    /\ Len(Recorded) = Len(handler.outcomes)
    /\ \A k \in DOMAIN Recorded :
          /\ Recorded[k].category = PairCategory(k)
          /\ Recorded[k].date = PairDate(k)
          /\ Recorded[k].status = (IF Scraped(k) THEN "success" ELSE "failed")
          /\ Scraped(k) =>
                Recorded[k].article_count = Len(handler.outcomes[k].ret[1].articles)
    /\ \A i \in DOMAIN handler.dates, j \in DOMAIN handler.dates :
          i < j => ToOrdinal(Strptime(handler.dates[i])) < ToOrdinal(Strptime(handler.dates[j]))
    /\ (handler.pc = "done" /\ handler.response.statusCode = 200) =>
          LET summary == handler.response.body.summary
              pairs == Len(handler.url_templates) * Len(handler.dates)
          IN  /\ Len(Recorded) = pairs
              /\ summary.total_urls_processed = pairs
              /\ summary.successful + summary.failed = pairs
              /\ summary.successful = Cardinality({k \in DOMAIN Recorded : Scraped(k)})
              /\ summary.total_articles = ArticlesFound(pairs)

\* an invocation for two categories and two dates has returned with successes, a failure
\* and articles
C20_Witness ==
    /\ handler.pc = "done"
    /\ Len(handler.url_templates) = 2
    /\ Len(handler.dates) = 2
    /\ handler.url_templates[1].category # handler.url_templates[2].category
    /\ handler.response.body.summary.total_urls_processed = 4
    /\ handler.response.body.summary.successful = 3
    /\ handler.response.body.summary.failed = 1
    /\ handler.response.body.summary.total_articles = 2

(***************************************************************************)
(* C21: within a scrape_url call the steps come in the order quota check,  *)
(* robots check, delay, GET.  A call that finds the pages fetched from the *)
(* domain at the quota returns without a robots check and without a        *)
(* robots.txt request; a GET is sent only past both checks and after the   *)
(* delay of the attempt was waited; the domain counter goes up and the     *)
(* failure counter is reset only in the step of a successful GET, which    *)
(* builds the page result after them.                                      *)
(***************************************************************************)
\* the pages fetched from the domain of the URL have reached the quota
PagesAtQuota(url) ==
    config.impl = "webscraper" /\ CounterOf(url.domain) >= config.max_pages_per_domain

\* a step of the call sends the GET of the page
SendsGet == call'.gets = call.gets + 1

C21_StepOrder ==
    /\ (call.pc = "should_scrape" /\ PagesAtQuota(call.url)) =>
           /\ call'.pc = "returned" /\ call'.outcome = "quota"
           /\ UNCHANGED <<robot_parsers, net>>
    /\ SendsGet =>
           /\ call.pc = "get"
           /\ call.delay # None
           /\ ~QuotaWasReached
           /\ config.respect_robots_txt =>
                  /\ call.url.domain \in DOMAIN robot_parsers
                  /\ ParserCanFetch(robot_parsers[call.url.domain], call.url)
    /\ (domain_counters' # domain_counters \/ consecutive_failures' < consecutive_failures) =>
           /\ SendsGet
           /\ call'.pc = "returned" /\ call'.outcome = "success"
           /\ call'.ret = <<PageData(call.url)>>

C21_GateOrder == [][C21_StepOrder]_vars

(***************************************************************************)
(* C22: the backoff scrape_url has waited last is, at attempt i >= 1 of    *)
(* the URL, 2^(i-1) seconds, the wait after failed attempt i-1: 1, 2, 4    *)
(* seconds after the attempts 0, 1, 2.  No backoff was waited at attempt   *)
(* 0, and a call whose every attempt failed returns with the backoff of    *)
(* its last but one attempt as the last one waited, or with none when it   *)
(* had one attempt.                                                        *)
(***************************************************************************)
RECURSIVE Doubled(_)
\* 1 doubled n times
Doubled(n) == IF n = 0 THEN 1 ELSE 2 * Doubled(n - 1)

\* the backoff waited last when attempt i is the current or the last attempt
BackoffBefore(i) == IF i = 0 THEN None ELSE Doubled(i - 1)

C22_BackoffDoublesBetweenAttempts ==
    /\ call.pc \in {"delay", "get"} => call.backoff = BackoffBefore(call.attempt)
    /\ (call.pc = "returned" /\ call.outcome = "failed") =>
           call.backoff = BackoffBefore(Max(config.max_retries, 1) - 1)
    /\ (call.pc = "returned" /\ call.outcome = "success") =>
           call.backoff = BackoffBefore(call.gets - 1)
    /\ (call.pc = "returned" /\ call.outcome \in {"quota", "robots"}) => call.backoff = None

\* a call of four attempts has failed: it waited 4 seconds last, after attempt 2
C22_Witness ==
    /\ call.pc = "returned" /\ call.outcome = "failed"
    /\ config.max_retries = 4
    /\ call.gets = 4
    /\ call.backoff = 4

(***************************************************************************)
(* C23: every GET of scrape_url, a retry included, is sent right after a   *)
(* delay computed and waited for that attempt: an attempt is reached only  *)
(* through the wait, and the GET leaves it.  The delay is at least the     *)
(* minimum of delay_range; it lies in delay_range when the parser cached   *)
(* for the domain holds no Crawl-delay, and is the larger of the           *)
(* Crawl-delay and a value of delay_range when it holds one, so never      *)
(* less than the Crawl-delay.                                              *)
(***************************************************************************)
\* the Crawl-delay of the robots.txt read for the domain, None without one
DeclaredDelay(domain) ==
    IF domain \in DOMAIN robot_parsers /\ robot_parsers[domain].last_checked
    THEN robot_parsers[domain].crawl_delay
    ELSE None

DelayAsClaimed(delay, domain) ==
    /\ delay >= DelayMin
    /\ IF DeclaredDelay(domain) = None
       THEN delay \in DelayMin..DelayMax
       ELSE /\ delay >= DeclaredDelay(domain)
            /\ \E random \in DelayMin..DelayMax :
                  delay = (IF DeclaredDelay(domain) >= random THEN DeclaredDelay(domain)
                           ELSE random)

C23_StepDelay ==
    /\ (call'.pc = "get" /\ call' # call) =>
           /\ call.pc = "delay"
           /\ call'.attempt = call.attempt /\ call'.gets = call.gets
           /\ DelayAsClaimed(call'.delay, call.url.domain)
    /\ (call.pc = "get" /\ call' # call) => SendsGet /\ call'.pc \in {"delay", "returned"}
    /\ SendsGet =>
           /\ call.pc = "get"
           /\ DelayAsClaimed(call.delay, call.url.domain)

C23_FreshDelayBeforeEveryGet == [][C23_StepDelay]_vars

\* the delay of a retry is waited: the domain declares a Crawl-delay within delay_range
\* and the value drawn is the larger one
C23_Witness ==
    /\ call.pc = "get"
    /\ call.attempt >= 1
    /\ DeclaredDelay(call.url.domain) = RobotsDelayShort
    /\ call.delay = DelayMax

(***************************************************************************)
(* C24: the extraction_index of a record of _extract_articles is the       *)
(* 0-based position, in the deduplicated list, of the container it was     *)
(* parsed from; the containers before it that gave no record for lack of a *)
(* title are counted.  So the indices of a page's records are strictly     *)
(* increasing and distinct, each at least the position of the record in    *)
(* the result, and larger by the number of earlier containers that gave no *)
(* record.                                                                 *)
(***************************************************************************)
\* the containers at the 0-based positions below i that gave no record
GaveNoRecord(unique_containers, i) ==
    {k \in 1..i : unique_containers[k].raises \/ Qualifying(unique_containers[k].headings) = {}}

C24_IndexIsContainerPosition ==
    (fn.op = "extract_articles" /\ fn.done) =>
        /\ \A n \in DOMAIN fn.out :
              LET i == fn.out[n].extraction_index
              IN  /\ i \in 0..(Len(fn.unique_containers) - 1)
                  /\ ~fn.unique_containers[i + 1].raises
                  /\ fn.out[n].title = ClaimedTitle(fn.unique_containers[i + 1].headings)
                  /\ i = (n - 1) + Cardinality(GaveNoRecord(fn.unique_containers, i))
        /\ \A n \in DOMAIN fn.out, m \in DOMAIN fn.out :
              n < m => fn.out[n].extraction_index < fn.out[m].extraction_index

\* a container without a title between two that give a record: the indices are 0 and 2
C24_Witness ==
    /\ fn.op = "extract_articles" /\ fn.done
    /\ fn.unique_containers = <<CardA, Teaser, Long(170, "1")>>
    /\ Len(fn.out) = 2
    /\ fn.out[1].extraction_index = 0
    /\ fn.out[2].extraction_index = 2

(***************************************************************************)
(* C25: in every state and for every domain, the pages fetched from the    *)
(* domain, domain_counters[domain], are no more than max_pages_per_domain, *)
(* for every quota, 0 included, and after any sequence of scrape_url       *)
(* calls.                                                                  *)
(***************************************************************************)
C25_CounterWithinQuota ==
    config.impl = "webscraper" =>
        \A d \in DOMAIN domain_counters : domain_counters[d] <= config.max_pages_per_domain

(***************************************************************************)
(* C26: during a scrape_date_range call that began with                    *)
(* consecutive_failures at 0, the counter never exceeds                    *)
(* max_consecutive_failures, and no scrape_url call, hence no GET and no   *)
(* robots.txt request, is under way in a state where the counter has       *)
(* reached it; with a threshold of 0 no scrape_url call is made at all.    *)
(***************************************************************************)
\* a scrape_date_range call that began with the counter at 0 is under way or has ended
RangeFromZero == driver.pc \in {"loop", "wait", "done"} /\ driver.cf_start = 0

C26_FailuresWithinThreshold ==
    RangeFromZero =>
        /\ consecutive_failures <= config.max_consecutive_failures
        /\ call.pc \in {"should_scrape", "delay", "get"} =>
               consecutive_failures < config.max_consecutive_failures
        /\ config.max_consecutive_failures = 0 =>
               /\ call.pc = "idle"
               /\ driver.outcomes = <<>> /\ driver.requested = {}
               /\ driver.pc = "done" => driver.aborted \/ driver.dates = <<>>

\* the breaker has tripped at the threshold after a success in the same call
C26_Witness ==
    /\ RangeFromZero
    /\ driver.pc = "done" /\ driver.aborted
    /\ config.max_consecutive_failures = 2
    /\ consecutive_failures = 2
    /\ \E k \in DOMAIN driver.outcomes : driver.outcomes[k] = "success"

(***************************************************************************)
(* C27: skip_missing_dates has no effect on scrape_date_range.  What a run *)
(* has done is determined, in every state and for either value of the      *)
(* flag, by the dates, the outcomes of the fetches so far and the other    *)
(* settings: the URL requested is that of the date after the outcomes, the *)
(* results are the pages of the successful dates, the failure counter is   *)
(* the failures since the last success, and the run ends only at the end   *)
(* of the dates or by the circuit breaker, never at a failed date as such. *)
(* Two runs that differ in the flag alone and see the same outcomes        *)
(* therefore request the same URLs and end with the same counters and      *)
(* results.                                                                *)
(***************************************************************************)
\* the dates the loop has taken from the generator
DatesTaken == Len(driver.outcomes) + (IF driver.pc = "wait" \/ driver.aborted THEN 1 ELSE 0)

C27_SkipMissingDatesHasNoEffect ==
    driver.pc \in {"loop", "wait", "done"} =>
        /\ DatesTaken <= Len(driver.dates)
        /\ driver.total_dates = DatesTaken
        /\ driver.pc = "wait" =>
               /\ call.pc # "idle"
               /\ call.url = FormatUrlWithDate(UrlTemplate, driver.dates[DatesTaken])
        /\ driver.pc # "wait" => call.pc = "idle"
        /\ Len(driver.results) = Cardinality({k \in DOMAIN driver.outcomes :
                                                 driver.outcomes[k] = "success"})
        /\ \A n \in DOMAIN driver.results :
               \E k \in DOMAIN driver.outcomes :
                   /\ driver.outcomes[k] = "success"
                   /\ driver.results[n].scraped_date = Strftime(driver.dates[k])
                   /\ n = Cardinality({j \in 1..k : driver.outcomes[j] = "success"})
        /\ driver.pc # "wait" =>
               consecutive_failures = Carried + FailuresSinceSuccess(driver.outcomes)
        /\ (driver.pc = "wait" /\ call.pc = "returned") =>
               CounterOf(call.url.domain)
                   = (IF call.dc0 = None THEN 0 ELSE call.dc0)
                     + (IF call.outcome = "success" THEN 1 ELSE 0)
        /\ driver.pc = "done" =>
               IF driver.aborted
               THEN consecutive_failures >= config.max_consecutive_failures
               ELSE Len(driver.outcomes) = Len(driver.dates)

\* with skip_missing_dates off, a run has gone on past a failed date to a success and
\* to the end of the dates
C27_Witness ==
    /\ ~config.skip_missing_dates
    /\ driver.pc = "done" /\ ~driver.aborted
    /\ Len(driver.dates) >= 3
    /\ \E j \in DOMAIN driver.outcomes, k \in DOMAIN driver.outcomes :
           j < k /\ driver.outcomes[j] = "failed" /\ driver.outcomes[k] = "success"

(***************************************************************************)
(* C28: with respect_robots_txt off no robots.txt is ever requested and    *)
(* the cache of parsers stays empty, in every state of the run; so no      *)
(* scrape_url call returns blocked by robots, in scrape_date_range         *)
(* neither, and every delay waited is a value of delay_range.              *)
(***************************************************************************)
C28_NoRobotsWhenNotRespected ==
    ~config.respect_robots_txt =>
        /\ robot_parsers = << >>
        /\ \A d \in Domains : net.robots_requests[d] = 0
        /\ net.robots_failed = {}
        /\ call.outcome # "robots"
        /\ \A k \in DOMAIN driver.outcomes : driver.outcomes[k] # "robots"
        /\ call.delay # None => call.delay \in DelayMin..DelayMax

\* with the check off, the second call of a scraper has fetched, on a retry, the URL a
\* robots.txt of the domain would disallow
C28_Witness ==
    /\ ~config.respect_robots_txt
    /\ net.calls = 2
    /\ call.pc = "returned" /\ call.outcome = "success"
    /\ call.url.path = BlockedPath
    /\ call.attempt = 1
    /\ call.delay = DelayMax

(***************************************************************************)
(* C29: every scrape_date_range call ends, whatever the outcomes of its    *)
(* fetches: a call that is in its loop or in a scrape_url call leads to    *)
(* the end of the loop.  It takes each date of the range once at most, in  *)
(* order, makes one scrape_url call at most for it, and a scrape_url call  *)
(* sends max_retries GETs at most.                                         *)
(***************************************************************************)
\* the loop is at most one date past the outcomes, and the call under way is the only
\* one for its date
RangeWithinBounds ==
    driver.pc \in {"loop", "wait", "done"} =>
        /\ driver.i = Len(driver.outcomes) + 1
        /\ Len(driver.outcomes) + (IF driver.pc = "wait" THEN 1 ELSE 0) <= Len(driver.dates)
        /\ driver.requested \subseteq 1..Len(driver.dates)
        /\ call.gets <= config.max_retries
        /\ call.attempt <= Max(config.max_retries, 1) - 1

\* a step of the loop takes the next date or none
StepTakesNextDate ==
    (driver.pc \in {"loop", "wait"} /\ driver'.pc # "none") =>
        /\ driver'.dates = driver.dates
        /\ driver'.i \in {driver.i, driver.i + 1}
        /\ Len(driver'.outcomes) = Len(driver.outcomes) + (driver'.i - driver.i)

C29_DateRangeTerminates ==
    /\ []RangeWithinBounds
    /\ [][StepTakesNextDate]_vars
    /\ (driver.pc \in {"loop", "wait"}) ~> (driver.pc = "done")

\* a call over five dates has ended at the end of the dates after a success, a failure of
\* every attempt and a refusal by robots.txt
C29_Witness ==
    /\ driver.pc = "done" /\ ~driver.aborted
    /\ Len(driver.dates) = 5
    /\ Len(driver.outcomes) = 5
    /\ {"success", "failed", "robots"} \subseteq Range(driver.outcomes)
    /\ config.max_retries = 2

====
